---- MODULE Spec2Model ----
(***************************************************************************)
(* A model of maintainer-d:                                                *)
(*   - the onboarding webhook server (EventListener) with the FOSSA        *)
(*     client, the SQLite store and the GitHub issue API it drives;        *)
(*   - the kdp-workspaces Project reconciler and its kcp client;           *)
(*   - the database -> Custom Resource sync job.                           *)
(* Strings whose characters matter to the code (emails, label names, the   *)
(* names that sanitizeName rewrites) are sequences of one-character        *)
(* strings; identifiers that are only compared for equality are strings.   *)
(***************************************************************************)
EXTENDS Integers, Sequences, FiniteSets, TLC

VARIABLES
    \* ---- onboarding: FOSSA (the remote service) ----
    fossaTeams,        \* set of [ID, Name]: the teams of the organisation
    fossaInvitations,  \* set of emails with an active invitation
    fossaUsers,        \* set of emails of FOSSA users
    fossaTeamMembers,  \* team ID -> sequence of member emails
    \* ---- onboarding: the maintainer-d database ----
    dbServiceTeams,    \* sequence of ServiceTeam rows
    dbAuditLog,        \* sequence of AuditLog rows
    \* ---- onboarding: what the last handler invocation did ----
    last,
    \* ---- kdp-workspaces operator ----
    k8sProjects,       \* Project CRs: key -> [exists, annotations, conditions]
    kcpWorkspaces,     \* kcp: workspace name -> [phase, owner]
    lastReconcile,     \* what the last Reconcile did
    workqueue,         \* the requests the controller has queued
    \* ---- sync job ----
    syncDB,            \* the database rows the sync job reads
    cluster,           \* Custom Resources in the target namespace
    lastSync,          \* what the last syncAll did
    \* ---- bootstrap ----
    bootDB,            \* the database the bootstrap command fills
    lastBoot,          \* what the last step of bootstrap did
    \* ---- the FOSSA client on its own ----
    lastCreateTeam,    \* what the last call of CreateTeam returned
    lastPending,       \* what the last call of HasPendingInvitation returned
    lastWait,          \* the call of WaitForWorkspaceReady that is under way
    lastSanitize,      \* the call of sanitizeName that was made last
    \* ---- onboarding: webhook deliveries served concurrently ----
    deliveries         \* goroutine -> [project, pc, hasRow, team]

vars == <<fossaTeams, fossaInvitations, fossaUsers, fossaTeamMembers,
          dbServiceTeams, dbAuditLog, last,
          k8sProjects, kcpWorkspaces, lastReconcile, workqueue,
          syncDB, cluster, lastSync, bootDB, lastBoot,
          lastCreateTeam, lastPending, lastWait, lastSanitize, deliveries>>

onboardVars == <<fossaTeams, fossaInvitations, fossaUsers, fossaTeamMembers,
                 dbServiceTeams, dbAuditLog, last>>
kcpVars == <<k8sProjects, kcpWorkspaces, lastReconcile, workqueue>>
syncVars == <<syncDB, cluster, lastSync>>
bootVars == <<bootDB, lastBoot>>
clientVars == <<lastCreateTeam, lastPending, lastWait, lastSanitize>>

(***************************************************************************)
(* Bounds.                                                                 *)
(***************************************************************************)
\* how many of a handler's outbound calls may fail in one invocation
MaxFaults == 1

(***************************************************************************)
(* Strings as sequences of characters.                                     *)
(***************************************************************************)
UpperChars == <<"A","B","C","D","E","F","G","H","I","J","K","L","M",
                "N","O","P","Q","R","S","T","U","V","W","X","Y","Z">>
LowerChars == <<"a","b","c","d","e","f","g","h","i","j","k","l","m",
                "n","o","p","q","r","s","t","u","v","w","x","y","z">>

ToLowerChar(c) ==
    IF \E i \in 1..Len(UpperChars) : UpperChars[i] = c
    THEN LowerChars[CHOOSE i \in 1..Len(UpperChars) : UpperChars[i] = c]
    ELSE c

\* strings.ToLower
ToLower(s) == [i \in 1..Len(s) |-> ToLowerChar(s[i])]

IsSpace(c) == c \in {" ", "\t", "\n"}

RECURSIVE TrimLeft(_, _)
TrimLeft(s, cut) ==
    IF s # <<>> /\ s[1] \in cut THEN TrimLeft(Tail(s), cut) ELSE s

RECURSIVE TrimRight(_, _)
TrimRight(s, cut) ==
    IF s # <<>> /\ s[Len(s)] \in cut
    THEN TrimRight(SubSeq(s, 1, Len(s) - 1), cut) ELSE s

\* strings.Trim(s, cutset)
Trim(s, cut) == TrimRight(TrimLeft(s, cut), cut)

\* strings.TrimSpace
TrimSpace(s) == Trim(s, {" ", "\t", "\n"})

\* strings.Contains
Contains(s, sub) ==
    \E i \in 0..(Len(s) - Len(sub)) : SubSeq(s, i + 1, i + Len(sub)) = sub

(***************************************************************************)
(* Onboarding: the data of the model.                                      *)
(***************************************************************************)
\* EventListener.Secret, as the server is configured
Secret == "test-secret"

Email_alice == <<"a", "@", "x">>
Email_bob == <<"b", "@", "x">>
\* a person who is no maintainer, whose address contains bob's
Email_other == <<"a", "b", "@", "x">>

Alice == [ID |-> 1, GitHubAccount |-> "alice", Email |-> Email_alice]
Bob == [ID |-> 2, GitHubAccount |-> "bob", Email |-> Email_bob]

\* the projects table with the maintainer_projects association
DBProjects ==
    { [ID |-> 1, Name |-> "alpha", Maintainers |-> <<Alice, Bob>>],
      [ID |-> 2, Name |-> "beta", Maintainers |-> <<>>] }

\* EventListener.Projects: the cache Init loads with GetProjectMapByName
Projects == [n \in {p.Name : p \in DBProjects} |->
                CHOOSE p \in DBProjects : p.Name = n]

\* the zero value of model.Project, what a map lookup of an unknown name gives
ZeroProject == [ID |-> 0, Name |-> "", Maintainers |-> <<>>]

MaintainerEmails == {Email_alice, Email_bob}

\* the id FOSSA gives the first team of the organisation
FirstTeamID == 1000

\* FossaTeamAdmin, the role maintainers get
FossaTeamAdmin == 3

\* HTTP status codes the webhook answers with
StatusOK == 200
StatusBadRequest == 400
StatusUnauthorized == 401

NoTeam == [ID |-> 0, Name |-> ""]

\* the outbound calls that can fail in a handler invocation
FaultPoints ==
    { "CreateTeam", "SendUserInvitation", "HasPendingInvitation",
      "FetchTeamUserEmails", "AddUserToTeamByEmail", "FetchImportedRepos",
      "CreateComment", "AddLabelsToIssue",
      "GetMaintainersByProject", "GetProjectServiceTeamMap",
      "CreateServiceTeam", "LogAuditEvent" }

FaultSets == {F \in SUBSET FaultPoints : Cardinality(F) <= MaxFaults}

(***************************************************************************)
(* The world a handler acts on: FOSSA, the database, GitHub, and the log   *)
(* of the calls the handler made.                                          *)
(***************************************************************************)
Log(w, sys, api, arg, ok) ==
    [w EXCEPT !.calls = Append(@, [sys |-> sys, api |-> api, arg |-> arg, ok |-> ok])]

(***************************************************************************)
(* The FOSSA client (plugins/fossa) against the FOSSA service.             *)
(***************************************************************************)
normalizeEmail(value) == ToLower(TrimSpace(value))

\* the id of the FOSSA user with this email, 0 when there is none
findUserIDByEmail(w, email) ==
    LET target == normalizeEmail(email) IN
    IF target = <<>> THEN <<>>
    ELSE IF \E u \in w.users : normalizeEmail(u) = target
         THEN CHOOSE u \in w.users : normalizeEmail(u) = target
         ELSE <<>>

\* a faulty variant: the refusal of an existing name is returned as an error
CreateTeam_refusesExisting(w, name, F) ==
    IF "CreateTeam" \in F \/ \E t \in w.teams : t.Name = name
    THEN [w |-> Log(w, "fossa", "CreateTeam", name, FALSE),
          team |-> NoTeam, err |-> "CreateTeam failed"]
    ELSE LET t == [ID |-> FirstTeamID + Cardinality(w.teams), Name |-> name]
             w1 == [w EXCEPT !.teams = @ \cup {t},
                             !.members = (t.ID :> <<>>) @@ @]
         IN [w |-> Log(w1, "fossa", "CreateTeam", name, TRUE),
             team |-> t, err |-> "nil"]

\* POST /teams; FOSSA refuses an existing name with code 2003, and the
\* client then fetches and returns the existing team
CreateTeam(w, name, F) ==
    IF "CreateTeam" \in F
    THEN [w |-> Log(w, "fossa", "CreateTeam", name, FALSE),
          team |-> NoTeam, err |-> "CreateTeam failed"]
    ELSE IF \E t \in w.teams : t.Name = name
         THEN [w |-> Log(w, "fossa", "CreateTeam", name, TRUE),
               team |-> CHOOSE t \in w.teams : t.Name = name, err |-> "nil"]
         ELSE LET t == [ID |-> FirstTeamID + Cardinality(w.teams), Name |-> name]
                  w1 == [w EXCEPT !.teams = @ \cup {t},
                                  !.members = (t.ID :> <<>>) @@ @]
              IN [w |-> Log(w1, "fossa", "CreateTeam", name, TRUE),
                  team |-> t, err |-> "nil"]

\* POST /organizations/162/invite
SendUserInvitation(w, email, F) ==
    IF "SendUserInvitation" \in F
    THEN [w |-> Log(w, "fossa", "SendUserInvitation", email, FALSE),
          err |-> "SendUserInvitation failed"]
    ELSE IF email \in w.users
         THEN [w |-> Log(w, "fossa", "SendUserInvitation", email, FALSE),
               err |-> "ErrUserAlreadyMember"]
         ELSE IF email \in w.invitations
              THEN [w |-> Log(w, "fossa", "SendUserInvitation", email, FALSE),
                    err |-> "ErrInviteAlreadyExists"]
              ELSE [w |-> Log([w EXCEPT !.invitations = @ \cup {email}],
                             "fossa", "SendUserInvitation", email, TRUE),
                    err |-> "nil"]

\* GET /user-invitations, then a case-insensitive substring search of the body
HasPendingInvitation(w, email, F) ==
    IF "HasPendingInvitation" \in F
    THEN [w |-> Log(w, "fossa", "HasPendingInvitation", email, FALSE),
          pending |-> FALSE, err |-> "FetchUserInvitations failed"]
    ELSE [w |-> Log(w, "fossa", "HasPendingInvitation", email, TRUE),
          pending |-> \E inv \in w.invitations :
                          Contains(ToLower(inv), ToLower(email)),
          err |-> "nil"]

\* GET /teams/{id}/members
FetchTeamUserEmails(w, teamID, F) ==
    IF "FetchTeamUserEmails" \in F \/ teamID \notin DOMAIN w.members
    THEN [w |-> Log(w, "fossa", "FetchTeamUserEmails", teamID, FALSE),
          emails |-> <<>>, err |-> "list team users failed"]
    ELSE [w |-> Log(w, "fossa", "FetchTeamUserEmails", teamID, TRUE),
          emails |-> w.members[teamID], err |-> "nil"]

\* PUT /teams/{id}/users, after resolving the user by email
AddUserToTeamByEmail(w, teamID, email, roleID, F) ==
    LET uid == findUserIDByEmail(w, email) IN
    IF "AddUserToTeamByEmail" \in F
    THEN [w |-> Log(w, "fossa", "AddUserToTeamByEmail", email, FALSE),
          err |-> "AddUserToTeamByEmail failed"]
    ELSE IF uid = <<>>
         THEN [w |-> Log(w, "fossa", "AddUserToTeamByEmail", email, FALSE),
               err |-> "user not found by email"]
         ELSE IF teamID \notin DOMAIN w.members
              THEN [w |-> Log(w, "fossa", "AddUserToTeamByEmail", email, FALSE),
                    err |-> "AddUserToTeamByEmail failed"]
              ELSE IF \E i \in 1..Len(w.members[teamID]) : w.members[teamID][i] = uid
                   THEN [w |-> Log(w, "fossa", "AddUserToTeamByEmail", email, FALSE),
                         err |-> "ErrUserAlreadyMember"]
                   ELSE [w |-> Log([w EXCEPT !.members[teamID] = Append(@, uid)],
                                  "fossa", "AddUserToTeamByEmail", email, TRUE),
                         err |-> "nil"]

\* GET /teams/{id}, then GET /teams/{id}/projects; no repository is imported
\* while a project is being onboarded
FetchImportedRepos(w, teamID, F) ==
    IF "FetchImportedRepos" \in F
    THEN [w |-> Log(w, "fossa", "FetchImportedRepos", teamID, FALSE),
          count |-> 0, err |-> "FetchImportedRepos failed"]
    ELSE [w |-> Log(w, "fossa", "FetchImportedRepos", teamID, TRUE),
          count |-> 0, err |-> "nil"]

(***************************************************************************)
(* The store (db.SQLStore).                                                *)
(***************************************************************************)
\* a faulty variant: the maintainers of all projects, whatever the id
GetMaintainersByProject_ofAnyProject(projectID, F) ==
    [val |-> <<Alice, Bob>>, err |-> "nil"]

GetMaintainersByProject(projectID, F) ==
    IF "GetMaintainersByProject" \in F
    THEN [val |-> <<>>, err |-> "db error"]
    ELSE IF \E p \in DBProjects : p.ID = projectID
         THEN [val |-> (CHOOSE p \in DBProjects : p.ID = projectID).Maintainers,
               err |-> "nil"]
         ELSE [val |-> <<>>, err |-> "ErrProjectNotFound"]

\* project id -> the ServiceTeam row of the service; a later row of the same
\* project replaces an earlier one
GetProjectServiceTeamMap(w, serviceName, F) ==
    IF "GetProjectServiceTeamMap" \in F
    THEN [val |-> <<>>, err |-> "db error"]
    ELSE LET rows == w.serviceTeams
             ids == {rows[i].ProjectID : i \in 1..Len(rows)}
             lastOf(pid) == CHOOSE i \in 1..Len(rows) :
                                /\ rows[i].ProjectID = pid
                                /\ \A j \in (i + 1)..Len(rows) : rows[j].ProjectID # pid
         IN [val |-> [pid \in ids |-> rows[lastOf(pid)]], err |-> "nil"]

\* FirstOrCreate on service_team_id
CreateServiceTeam(w, projectID, projectName, serviceID, serviceName, F) ==
    IF "CreateServiceTeam" \in F
    THEN [w |-> Log(w, "db", "CreateServiceTeam", projectName, FALSE),
          err |-> "CreateServiceTeamsForUser had partial errors"]
    ELSE IF \E i \in 1..Len(w.serviceTeams) : w.serviceTeams[i].ServiceTeamID = serviceID
         THEN [w |-> Log(w, "db", "CreateServiceTeam", projectName, TRUE), err |-> "nil"]
         ELSE LET st == [ServiceTeamID |-> serviceID, ServiceID |-> 1,
                         ServiceTeamName |-> serviceName,
                         ProjectID |-> projectID, ProjectName |-> projectName]
              IN [w |-> Log([w EXCEPT !.serviceTeams = Append(@, st)],
                            "db", "CreateServiceTeam", projectName, TRUE),
                  err |-> "nil"]

\* a faulty variant: the entry is not written
LogAuditEvent_lost(w, event, F) == Log(w, "db", "LogAuditEvent", event.Action, TRUE)

LogAuditEvent(w, event, F) ==
    LET ev == IF event.Message = "" THEN [event EXCEPT !.Message = event.Action]
              ELSE event
    IN IF "LogAuditEvent" \in F
       THEN Log(w, "db", "LogAuditEvent", ev.Action, FALSE)
       ELSE Log([w EXCEPT !.auditLog = Append(@, ev)],
                "db", "LogAuditEvent", ev.Action, TRUE)

(***************************************************************************)
(* The onboarding server (onboarding.EventListener).                       *)
(***************************************************************************)
Str_fossa == <<"f", "o", "s", "s", "a">>
Str_FOSSA == <<"F", "O", "S", "S", "A">>
Str_snyk == <<"s", "n", "y", "k">>
Str_bug == <<"b", "u", "g">>
Str_label == <<"/", "l", "a", "b", "e", "l">>
Str_accepted == <<"a", "c", "c", "e", "p", "t", "e", "d">>
Str_fossaInvite == <<"/", "f", "o", "s", "s", "a", "-", "i", "n", "v", "i", "t", "e">>
\* the invite command "/fossa-invite accepted"
Cmd_accepted == Str_fossaInvite \o <<" ">> \o Str_accepted

\* one line of a report: a message template and what is printed into it
Act(msg, who, project, n) == [msg |-> msg, who |-> who, project |-> project, n |-> n]

\* Issues.CreateComment
updateIssue(w, owner, repo, issueNumber, comment, F) ==
    LET c == [owner |-> owner, repo |-> repo, number |-> issueNumber, body |-> comment]
    IN IF "CreateComment" \in F
       THEN [w |-> Log(w, "github", "CreateComment", c, FALSE), err |-> "CreateComment failed"]
       ELSE [w |-> Log([w EXCEPT !.comments = Append(@, c)],
                       "github", "CreateComment", c, TRUE),
             err |-> "nil"]

containsEmail(list, target) == \E i \in 1..Len(list) : list[i] = target

\* the value of a call, bound once: the element of a singleton set
Only(S) == CHOOSE x \in S : TRUE

\* the loop of signProjectUpForFOSSA that invites each maintainer
RECURSIVE sendInvitations(_, _, _, _, _)
sendInvitations(w, maintainers, actions, invitedMaintainers, F) ==
    IF maintainers = <<>>
    THEN [w |-> w, actions |-> actions, invited |-> invitedMaintainers]
    ELSE Only({
         IF r.err = "ErrInviteAlreadyExists"
         THEN sendInvitations(r.w, Tail(maintainers),
                  Append(actions, Act("pending invitation", maintainer.GitHubAccount, "", 0)),
                  invitedMaintainers, F)
         ELSE IF r.err = "ErrUserAlreadyMember"
              THEN sendInvitations(r.w, Tail(maintainers),
                       Append(actions, Act("You are CNCF FOSSA User",
                                           maintainer.GitHubAccount, "", 0)),
                       invitedMaintainers, F)
              ELSE IF r.err # "nil"
                   THEN sendInvitations(r.w, Tail(maintainers),
                            Append(actions, Act("problem sending invitation",
                                                maintainer.GitHubAccount, "", 0)),
                            invitedMaintainers, F)
                   ELSE sendInvitations(r.w, Tail(maintainers), actions,
                            Append(invitedMaintainers, maintainer.GitHubAccount), F)
         : maintainer \in {Head(maintainers)},
           r \in {SendUserInvitation(w, Head(maintainers).Email, F)} })

\* the branch of signProjectUpForFOSSA that creates the team and its row; an
\* error of CreateServiceTeam is only logged
createTeamAndRow(w, project, actions, F) ==
    Only({
        IF ct.err # "nil"
        THEN [w |-> ct.w,
              actions |-> Append(actions, Act("Problem creating team on FOSSA", "",
                                              project.Name, 0))]
        ELSE [w |-> CreateServiceTeam(ct.w, project.ID, project.Name,
                                      ct.team.ID, ct.team.Name, F).w,
              actions |-> Append(actions, Act("has been created in FOSSA", "",
                                              ct.team.Name, ct.team.ID))]
        : ct \in {CreateTeam(w, project.Name, F)} })

\* the part of signProjectUpForFOSSA that finds or creates the team; a failed
\* lookup is reported and then treated as "no team"
ensureTeam(w, project, actions, F) ==
    Only({
        IF project.ID \in DOMAIN serviceTeams.val
        THEN [w |-> w,
              actions |-> Append(actions, Act("was already in FOSSA", "", project.Name,
                                     serviceTeams.val[project.ID].ServiceTeamID))]
        ELSE createTeamAndRow(w, project,
                 IF serviceTeams.err # "nil"
                 THEN Append(actions, Act("Problem retrieving serviceTeams", "", "", 0))
                 ELSE actions, F)
        : serviceTeams \in {GetProjectServiceTeamMap(w, "FOSSA", F)} })

\* the report on what FetchImportedRepos returned
importedReport(w, project, actions, fr) ==
    [w |-> fr.w,
     actions |->
         Append(IF fr.err # "nil"
                THEN Append(actions, Act("Error occurred during FetchImportedRepos",
                                         "", "", 0))
                ELSE actions,
                IF fr.count = 0
                THEN Act("has not yet imported repos", "", project.Name, 0)
                ELSE Act("have imported repos", "", project.Name, fr.count)),
     err |-> "nil", panicked |-> FALSE]

\* the end of signProjectUpForFOSSA: the report on imported repositories;
\* teamMap[project.ID] is dereferenced without a check
reportImportedRepos(w, project, actions, F) ==
    Only({
        IF teamMap.err # "nil"
        THEN [w |-> w, actions |-> <<>>, err |-> teamMap.err, panicked |-> FALSE]
        ELSE IF project.ID \notin DOMAIN teamMap.val
             THEN [w |-> w, actions |-> actions, err |-> "nil pointer dereference",
                   panicked |-> TRUE]
             ELSE importedReport(w, project, actions,
                      FetchImportedRepos(w, teamMap.val[project.ID].ServiceTeamID, F))
        : teamMap \in {GetProjectServiceTeamMap(w, "FOSSA", F)} })

\* signProjectUpForFOSSA once the maintainers are known
signUp(w, project, maintainers, F) ==
    Only({
        IF Len(maintainers) = 0
        THEN [w |-> t.w,
              actions |-> Append(t.actions, Act("Maintainers not yet registered", "",
                                                project.Name, 0)),
              err |-> "no maintainers found for project", panicked |-> FALSE]
        ELSE Only({
             reportImportedRepos(inv.w, project,
                 Append(inv.actions, Act("Invitation(s) sent to", inv.invited, "", 0)), F)
             : inv \in {sendInvitations(t.w, maintainers, t.actions, <<>>, F)} })
        : t \in {ensureTeam(w, project,
                     <<Act("maintainers registered", "", project.Name, Len(maintainers))>>,
                     F)} })

signProjectUpForFOSSA(w, project, F) ==
    Only({
        IF gm.err # "nil"
        THEN [w |-> w,
              actions |-> <<Act("maintainers not present in db", "", project.Name, 0)>>,
              err |-> "maintainers not found in db", panicked |-> FALSE]
        ELSE signUp(w, project, gm.val, F)
        : gm \in {GetMaintainersByProject(project.ID, F)} })

\* fossaChosen: onboard, then post the report on the issue of the event; a
\* project that is not in the cache is the zero Project
fossaChosen(w, projectName, e, F) ==
    Only({
        IF r.panicked
        THEN [w |-> r.w, panicked |-> TRUE]
        ELSE [w |-> updateIssue(r.w, e.owner, e.repo, e.number,
                        [kind |-> "FOSSA onboarding - Report", project |-> project.Name,
                         actions |-> r.actions, err |-> r.err], F).w,
              panicked |-> FALSE]
        : project \in {IF projectName \in DOMAIN Projects THEN Projects[projectName]
                       ELSE ZeroProject},
          r \in {signProjectUpForFOSSA(w,
                     IF projectName \in DOMAIN Projects THEN Projects[projectName]
                     ELSE ZeroProject, F)} })

\* the loop of addProjectMaintainersToFossaTeam over the maintainers; an
\* error of HasPendingInvitation is only logged
RECURSIVE addMaintainers(_, _, _, _, _, _, _)

\* a faulty variant: the error of the call ends the loop and is printed
addMaintainer_returnsError(w, project, teamID, maintainers, existingEmails, actions, F) ==
    Only({ [w |-> ad.w, actions |-> actions, err |-> ad.err]
        : ad \in {AddUserToTeamByEmail(w, teamID, Head(maintainers).Email,
                                       FossaTeamAdmin, F)} })

\* one maintainer who is neither pending nor in the list of members
addMaintainer(w, project, teamID, maintainers, existingEmails, actions, F) ==
    Only({
        IF ad.err = "ErrUserAlreadyMember"
        THEN addMaintainers(ad.w, project, teamID, Tail(maintainers), existingEmails,
                 Append(actions, Act("already a member; no action",
                                     Head(maintainers).GitHubAccount, "", 0)), F)
        ELSE IF ad.err # "nil"
             THEN addMaintainers(ad.w, project, teamID, Tail(maintainers), existingEmails,
                      Append(actions, Act("error adding to team",
                                          Head(maintainers).GitHubAccount, "", 0)), F)
             ELSE addMaintainers(
                      LogAuditEvent(ad.w,
                          [ProjectID |-> project.ID, MaintainerID |-> Head(maintainers).ID,
                           Action |-> "FOSSA_ADD_MEMBER",
                           Message |-> "Added to FOSSA team"], F),
                      project, teamID, Tail(maintainers),
                      Append(existingEmails, Head(maintainers).Email),
                      Append(actions, Act("added to FOSSA team as Team Admin",
                                          Head(maintainers).GitHubAccount,
                                          project.Name, 0)), F)
        : ad \in {AddUserToTeamByEmail(w, teamID, Head(maintainers).Email,
                                       FossaTeamAdmin, F)} })

addMaintainers(w, project, teamID, maintainers, existingEmails, actions, F) ==
    IF maintainers = <<>>
    THEN [w |-> w, actions |-> actions, err |-> "nil"]
    ELSE Only({
         IF hp.pending
         THEN addMaintainers(hp.w, project, teamID, Tail(maintainers), existingEmails,
                  Append(actions, Act("invitation still pending; skipped",
                                      Head(maintainers).GitHubAccount, "", 0)), F)
         ELSE IF containsEmail(existingEmails, Head(maintainers).Email)
              THEN addMaintainers(hp.w, project, teamID, Tail(maintainers),
                       existingEmails,
                       Append(actions, Act("already a member; no action",
                                           Head(maintainers).GitHubAccount, "", 0)), F)
              ELSE addMaintainer(hp.w, project, teamID, maintainers, existingEmails,
                                 actions, F)
         : hp \in {HasPendingInvitation(w, Head(maintainers).Email, F)} })

\* addProjectMaintainersToFossaTeam once the maintainers are known
addKnownMaintainers(w, project, teamID, maintainers, F) ==
    Only({
        IF fe.err # "nil"
        THEN [w |-> fe.w, actions |-> <<>>, err |-> "FetchTeamUserEmails"]
        ELSE addMaintainers(fe.w, project, teamID, maintainers, fe.emails, <<>>, F)
        : fe \in {FetchTeamUserEmails(w, teamID, F)} })

addProjectMaintainersToFossaTeam(w, project, teamID, F) ==
    Only({
        IF gm.err # "nil"
        THEN [w |-> w, actions |-> <<>>, err |-> "GetMaintainersByProject"]
        ELSE IF Len(gm.val) = 0
             THEN [w |-> w,
                   actions |-> <<Act("No registered maintainers found for this project",
                                     "", "", 0)>>,
                   err |-> "nil"]
             ELSE addKnownMaintainers(w, project, teamID, gm.val, F)
        : gm \in {GetMaintainersByProject(project.ID, F)} })

\* MockFossaClient.CreateTeam, the client the tests of the server run with:
\* an existing name is refused
MockFossaClient_CreateTeam(w, name) ==
    IF \E t \in w.teams : t.Name = name
    THEN [w |-> w, team |-> NoTeam, err |-> "ErrTeamAlreadyExists"]
    ELSE Only({ [w |-> [w EXCEPT !.teams = @ \cup {t}, !.members = (t.ID :> <<>>) @@ @],
                 team |-> t, err |-> "nil"]
              : t \in {[ID |-> FirstTeamID + Cardinality(w.teams), Name |-> name]} })

\* a faulty variant: the signature is not compared
ValidatePayload_acceptsAll(r, secret) == TRUE

\* github.ValidatePayload: the HMAC of the payload under the configured secret
\* equals the signature header exactly when the sender signed with that secret
ValidatePayload(r, secret) == r.signedWith = secret

\* an onboarding issue is titled "[PROJECT ONBOARDING] <project name>"
GetProjectNameFromProjectTitle(title) ==
    IF title.prefixed THEN [name |-> title.name, err |-> "nil"]
    ELSE [name |-> "", err |-> "unexpected title"]

\* a faulty variant: nothing is said when the team is missing
acceptInvitations_silent(w, project, e, F) == w

\* the authorized part of the IssueCommentEvent case: the team is looked up
\* and the maintainers are added to it
acceptInvitations(w, project, e, F) ==
    Only({
        IF stMap.err # "nil" THEN w
        ELSE IF \/ project.ID \notin DOMAIN stMap.val
                \/ stMap.val[project.ID].ServiceTeamID = 0
             THEN updateIssue(w, e.owner, e.repo, e.number,
                      [kind |-> "FOSSA team was not found", project |-> project.Name,
                       actions |-> <<>>, err |-> "nil"], F).w
             ELSE Only({
                  updateIssue(r.w, e.owner, e.repo, e.number,
                      [kind |-> "CNCF FOSSA Team Membership Update",
                       project |-> project.Name, actions |-> r.actions,
                       err |-> r.err], F).w
                  : r \in {addProjectMaintainersToFossaTeam(
                               w, project, stMap.val[project.ID].ServiceTeamID, F)} })
        : stMap \in {GetProjectServiceTeamMap(w, "FOSSA", F)} })

\* a faulty variant: every author is authorized
isAuthorized_everyone(project, e, F) == TRUE

\* the authorization of a comment: a registered maintainer of the project
\* (when the store can be read) or an assignee of the issue
isAuthorized(project, e, F) ==
    \/ \E gm \in {GetMaintainersByProject(project.ID, F)} :
          /\ gm.err = "nil"
          /\ \E i \in 1..Len(gm.val) : gm.val[i].GitHubAccount = e.actor
    \/ \E i \in 1..Len(e.assignees) : e.assignees[i] = e.actor
    \/ (e.assignee # "none" /\ e.assignee = e.actor)

\* the IssueCommentEvent case of handleWebhook
\* a faulty variant: the comment branch runs for any body of a created comment
handleIssueComment_anyBody(w, e, F) ==
    IF e.action # "created" THEN w
    ELSE Only({
         IF pn.err # "nil" THEN w
         ELSE IF pn.name \notin DOMAIN Projects THEN w
         ELSE acceptInvitations(w, Projects[pn.name], e, F)
         : pn \in {GetProjectNameFromProjectTitle(e.title)} })

handleIssueComment(w, e, F) ==
    IF e.action # "created" THEN w
    ELSE IF e.body # Cmd_accepted THEN w
    ELSE Only({
         IF pn.err # "nil" THEN w
         ELSE IF pn.name \notin DOMAIN Projects THEN w
         ELSE IF ~isAuthorized(Projects[pn.name], e, F)
              THEN updateIssue(w, e.owner, e.repo, e.number,
                       [kind |-> "You are not authorized to perform this action.",
                        project |-> "", actions |-> <<>>, err |-> "nil"], F).w
              ELSE acceptInvitations(w, Projects[pn.name], e, F)
         : pn \in {GetProjectNameFromProjectTitle(e.title)} })

\* the loop of the IssuesEvent case over the labels of the issue
RECURSIVE forEachLabel(_, _, _, _, _)
forEachLabel(w, labels, projectName, e, F) ==
    IF labels = <<>> THEN [w |-> w, panicked |-> FALSE]
    ELSE IF Head(labels) = Str_fossa
         THEN Only({
              IF r.panicked THEN r
              ELSE forEachLabel(r.w, Tail(labels), projectName, e, F)
              : r \in {fossaChosen(w, projectName, e, F)} })
         ELSE forEachLabel(w, Tail(labels), projectName, e, F)

\* the IssuesEvent case of handleWebhook
handleIssues(w, e, F) ==
    IF e.action # "labeled" THEN [w |-> w, panicked |-> FALSE]
    ELSE forEachLabel(w, e.labels, GetProjectNameFromProjectTitle(e.title).name, e, F)

\* what the handler answers after the IssuesEvent case
issuesStatus(res) == [w |-> res.w, status |-> IF res.panicked THEN 0 ELSE StatusOK]

\* a panic leaves the request unanswered (net/http recovers it and drops the
\* connection); what the handler did before it stays done
handleWebhook(w, r, F) ==
    IF ~ValidatePayload(r, Secret) THEN [w |-> w, status |-> StatusUnauthorized]
    ELSE IF ~r.parses THEN [w |-> w, status |-> StatusBadRequest]
    ELSE IF r.type = "issue_comment"
         THEN [w |-> handleIssueComment(w, r, F), status |-> StatusOK]
         ELSE IF r.type = "issues"
              THEN issuesStatus(handleIssues(w, r, F))
              ELSE [w |-> w, status |-> StatusOK]

\* strings.Fields: the maximal runs of non-space characters
RECURSIVE Fields(_)
Fields(s) ==
    LET t == TrimLeft(s, {" ", "\t", "\n"}) IN
    IF t = <<>> THEN <<>>
    ELSE LET n == IF \E i \in 1..Len(t) : IsSpace(t[i])
                  THEN (CHOOSE i \in 1..Len(t) :
                            IsSpace(t[i]) /\ \A j \in 1..(i - 1) : ~IsSpace(t[j])) - 1
                  ELSE Len(t)
         IN <<SubSeq(t, 1, n)>> \o Fields(SubSeq(t, n + 1, Len(t)))

\* Issues.AddLabelsToIssue
addLabel(w, owner, repo, issueNumber, label, F) ==
    LET l == [owner |-> owner, repo |-> repo, number |-> issueNumber, label |-> label]
    IN IF "AddLabelsToIssue" \in F
       THEN [w |-> Log(w, "github", "AddLabelsToIssue", l, FALSE),
             err |-> "AddLabelsToIssue failed"]
       ELSE [w |-> Log([w EXCEPT !.labels = Append(@, l)],
                       "github", "AddLabelsToIssue", l, TRUE),
             err |-> "nil"]

\* the comment a label command is answered with
LabelReply(w, e, kind, label, F) ==
    updateIssue(w, e.owner, e.repo, e.number,
        [kind |-> kind, project |-> e.title.name, actions |-> <<>>,
         err |-> "nil", actor |-> e.actor, label |-> label], F).w

\* the label command once it names a valid label of a registered project
addRequestedLabel(w, e, label, project, F) ==
    IF ~\E gm \in {GetMaintainersByProject(project.ID, F)} :
            /\ gm.err = "nil"
            /\ \E i \in 1..Len(gm.val) : gm.val[i].GitHubAccount = e.actor
    THEN LabelReply(w, e, "not yet been registered", label, F)
    ELSE Only({
         IF r.err # "nil" THEN r.w
         ELSE LabelReply(r.w, e, "label added", label, F)
         : r \in {addLabel(w, e.owner, e.repo, e.number, label, F)} })

\* the "/label <name>" command of an onboarding issue
handleLabelCommand(w, e, F) ==
    Only({
        IF Len(fields) # 2 \/ fields[1] # Str_label
        THEN LabelReply(w, e, "Invalid command format", <<>>, F)
        ELSE IF ToLower(fields[2]) \notin {Str_fossa, Str_snyk}
             THEN LabelReply(w, e, "Invalid label", fields[2], F)
             ELSE IF pn.err # "nil" \/ pn.name \notin DOMAIN Projects
                  THEN LabelReply(w, e, "project not found in maintainer-d database",
                                  ToLower(fields[2]), F)
                  ELSE addRequestedLabel(w, e, ToLower(fields[2]), Projects[pn.name], F)
        : fields \in {Fields(e.body)}, pn \in {GetProjectNameFromProjectTitle(e.title)} })

(***************************************************************************)
(* The requests GitHub (or anyone else) sends to /webhook.                 *)
(***************************************************************************)
Title(name) == [prefixed |-> TRUE, name |-> name]
\* a title without the onboarding prefix
OtherTitle == [prefixed |-> FALSE, name |-> "alpha"]

Unassigned == [assignees |-> <<>>, assignee |-> "none"]
AssignedToStaff == [assignees |-> <<"staff">>, assignee |-> "staff"]
\* only the single assignee field is set
AssigneeStaff == [assignees |-> <<>>, assignee |-> "staff"]

BaseRequest ==
    [signedWith |-> Secret, parses |-> TRUE, type |-> "ping", action |-> "",
     body |-> <<>>, title |-> [prefixed |-> FALSE, name |-> ""], actor |-> "",
     assignees |-> <<>>, assignee |-> "none", labels |-> <<>>, label |-> <<>>,
     owner |-> "cncf", repo |-> "onboarding", number |-> 42]

Comment(body, title, actor, g, n) ==
    [BaseRequest EXCEPT !.type = "issue_comment", !.action = "created",
                        !.body = body, !.title = title, !.actor = actor,
                        !.assignees = g.assignees, !.assignee = g.assignee,
                        !.number = n]

\* "/fossa-invite accepted" on the onboarding issues of alpha (#42), of beta
\* (#100), of an unregistered project and on an issue that is no onboarding issue
CommentRequests ==
    { Comment(Cmd_accepted, Title("alpha"), x[1], x[2], 42) :
        x \in { <<"alice", Unassigned>>, <<"staff", Unassigned>>,
                <<"staff", AssignedToStaff>>, <<"staff", AssigneeStaff>>,
                <<"mallory", AssignedToStaff>> } }
    \cup
    { Comment(Cmd_accepted, Title("beta"), a, Unassigned, 100) :
        a \in {"alice", "mallory"} }
    \cup
    { Comment(Cmd_accepted, t, "alice", Unassigned, 7) :
        t \in {Title("ghost"), OtherTitle} }
    \cup
    { Comment(Cmd_accepted \o <<"!">>, Title("alpha"), "alice", Unassigned, 42),
      Comment(<<"h", "i">>, Title("alpha"), "alice", Unassigned, 42),
      [Comment(Cmd_accepted, Title("alpha"), "alice", Unassigned, 42)
          EXCEPT !.action = "edited"] }

Labeled(title, labels, label, n) ==
    [BaseRequest EXCEPT !.type = "issues", !.action = "labeled", !.title = title,
                        !.labels = labels, !.label = label, !.actor = "staff",
                        !.number = n]

\* the labels of the issue after the event, and the label the event added
IssuesRequests ==
    { Labeled(Title("alpha"), l[1], l[2], 42) :
        l \in { <<<<Str_fossa>>, Str_fossa>>,
                <<<<Str_snyk, Str_fossa>>, Str_fossa>>,
                <<<<Str_fossa, Str_bug>>, Str_bug>>,
                <<<<Str_snyk>>, Str_snyk>> } }
    \cup
    { Labeled(Title("beta"), <<Str_fossa>>, Str_fossa, 100),
      Labeled(Title("ghost"), <<Str_fossa>>, Str_fossa, 7),
      Labeled(OtherTitle, <<Str_fossa>>, Str_fossa, 7),
      [Labeled(Title("alpha"), <<Str_fossa>>, Str_snyk, 42)
          EXCEPT !.action = "unlabeled"] }

\* "/label ..." comments, as the label command receives them
LabelRequests ==
    { Comment(Str_label \o <<" ">> \o x[1], x[2], x[3], Unassigned, 101) :
        x \in { <<Str_fossa, Title("alpha"), "alice">>,
                <<Str_FOSSA, Title("alpha"), "bob">>,
                <<Str_snyk, Title("alpha"), "bob">>,
                <<Str_bug, Title("alpha"), "alice">>,
                <<Str_fossa, Title("alpha"), "mallory">>,
                <<Str_fossa, Title("beta"), "alice">>,
                <<Str_fossa, Title("ghost"), "alice">>,
                <<Str_snyk, OtherTitle, "alice">> } }
    \cup
    { Comment(Str_label, Title("alpha"), "alice", Unassigned, 101),
      Comment(<<" ">> \o Str_label \o <<" ", " ">> \o Str_FOSSA \o <<" ">>,
              Title("alpha"), "alice", Unassigned, 101),
      Comment(Str_label \o <<" ">> \o Str_fossa \o <<" ">> \o Str_snyk,
              Title("alpha"), "alice", Unassigned, 101),
      Comment(Str_fossa, Title("alpha"), "alice", Unassigned, 101) }

SignedRequests == CommentRequests \cup IssuesRequests \cup {BaseRequest}

\* requests whose signature was not made with the configured secret
ForgedRequests ==
    { [r EXCEPT !.signedWith = "forged"] :
        r \in { Comment(Cmd_accepted, Title("alpha"), "alice", Unassigned, 42),
                Labeled(Title("alpha"), <<Str_fossa>>, Str_fossa, 42),
                BaseRequest } }

Requests ==
    SignedRequests \cup ForgedRequests \cup {[BaseRequest EXCEPT !.parses = FALSE]}

(***************************************************************************)
(* Onboarding: the state machine.                                          *)
(***************************************************************************)
World ==
    [teams |-> fossaTeams, invitations |-> fossaInvitations, users |-> fossaUsers,
     members |-> fossaTeamMembers, serviceTeams |-> dbServiceTeams,
     auditLog |-> dbAuditLog, calls |-> <<>>, comments |-> <<>>, labels |-> <<>>]

Install(w) ==
    /\ fossaTeams' = w.teams
    /\ fossaInvitations' = w.invitations
    /\ fossaUsers' = w.users
    /\ fossaTeamMembers' = w.members
    /\ dbServiceTeams' = w.serviceTeams
    /\ dbAuditLog' = w.auditLog

Done(op, req, F, status, w) ==
    [op |-> op, req |-> req, faults |-> F, status |-> status, calls |-> w.calls,
     comments |-> w.comments, labels |-> w.labels]

Idle == Done("idle", BaseRequest, {}, 0, World)

\* a ServiceTeam row an import has left without the id of its FOSSA team
UnlinkedTeamRow ==
    [ServiceTeamID |-> 0, ServiceID |-> 1, ServiceTeamName |-> "alpha",
     ProjectID |-> 1, ProjectName |-> "alpha"]

OnboardInit ==
    /\ fossaTeams = {}
    /\ fossaInvitations \in {{}, {Email_other}}
    /\ fossaUsers \in SUBSET MaintainerEmails
    /\ fossaTeamMembers = <<>>
    /\ dbServiceTeams \in {<<>>, <<UnlinkedTeamRow>>}
    /\ dbAuditLog = <<>>
    /\ last = Idle

\* GitHub delivers an event (or somebody posts a forged one) and the handler
\* runs to its end
HandleWebhook ==
    /\ last.op = "idle"
    /\ \E r \in Requests, F \in FaultSets :
        \E res \in {handleWebhook(World, r, F)} :
        /\ Install(res.w)
        /\ last' = Done("handleWebhook", r, F, res.status, res.w)
        /\ UNCHANGED <<kcpVars, syncVars, bootVars, clientVars, deliveries>>

\* a "/label <name>" comment reaches the label command
HandleLabelCommand ==
    /\ last.op = "idle"
    /\ \E e \in LabelRequests, F \in FaultSets :
        \E w \in {handleLabelCommand(World, e, F)} :
        /\ Install(w)
        /\ last' = Done("handleLabelCommand", e, F, 0, w)
        /\ UNCHANGED <<kcpVars, syncVars, bootVars, clientVars, deliveries>>

\* the response has been written and the server waits for the next request
Respond ==
    /\ last.op # "idle"
    /\ last' = Idle
    /\ UNCHANGED <<fossaTeams, fossaInvitations, fossaUsers, fossaTeamMembers,
                   dbServiceTeams, dbAuditLog, kcpVars, syncVars, bootVars, clientVars, deliveries>>

\* an invited person accepts the invitation in FOSSA and becomes a user
AcceptInvitation ==
    /\ last.op = "idle"
    /\ \E email \in fossaInvitations :
        /\ fossaInvitations' = fossaInvitations \ {email}
        /\ fossaUsers' = fossaUsers \cup {email}
        /\ UNCHANGED <<fossaTeams, fossaTeamMembers, dbServiceTeams, dbAuditLog, last>>
        /\ UNCHANGED <<kcpVars, syncVars, bootVars, clientVars, deliveries>>

(***************************************************************************)
(* The kdp-workspaces operator: the kcp client (internal/kcp) and the      *)
(* Project reconciler (internal/controller).                               *)
(***************************************************************************)
Name_a == <<"a">>
Name_b == <<"b">>

\* namespaced names of Project resources
ProjectKeys ==
    { [Namespace |-> "ns1", Name |-> Name_a],
      [Namespace |-> "ns2", Name |-> Name_a],
      [Namespace |-> "ns1", Name |-> Name_b] }

WorkspaceReadyCondition == "WorkspaceReady"
DefaultWorkspaceType == "kdp-organization"
LogicalClusterPhaseReady == "Ready"

\* seconds
RequeueConfig == 60
RequeueNotReady == 5
RequeueCreate == 30

\* the calls of a reconcile that can fail
KcpFaultPoints ==
    { "Get", "LoadConfigFromCluster", "NewClient", "GetWorkspace",
      "CreateWorkspace", "Update", "StatusUpdate" }

KcpFaultSets == {F \in SUBSET KcpFaultPoints : Cardinality(F) <= MaxFaults}

\* what kcp does to a workspace while WaitForWorkspaceReady polls it
WaitOutcomes == {"ready", "timeout", "deleted"}

KLog(k, api, arg, ok) ==
    [k EXCEPT !.calls = Append(@, [api |-> api, arg |-> arg, ok |-> ok])]

\* a nil *WorkspaceInfo
NilInfo == [nil |-> TRUE, Name |-> <<>>, URL |-> "", Phase |-> "", Ready |-> FALSE]

InfoOf(ws) ==
    [nil |-> FALSE, Name |-> ws.Name, URL |-> ws.URL, Phase |-> ws.Phase,
     Ready |-> (ws.Phase = LogicalClusterPhaseReady)]

\* a faulty variant: every workspace is reported as not found
GetWorkspace_neverFinds(k, workspaceName, F) ==
    [k |-> KLog(k, "GetWorkspace", workspaceName, TRUE), info |-> NilInfo, err |-> "nil"]

GetWorkspace(k, workspaceName, F) ==
    IF workspaceName = <<>>
    THEN [k |-> k, info |-> NilInfo, err |-> "workspace name cannot be empty"]
    ELSE IF "GetWorkspace" \in F
         THEN [k |-> KLog(k, "GetWorkspace", workspaceName, FALSE),
               info |-> NilInfo, err |-> "failed to get workspace"]
         ELSE IF workspaceName \notin DOMAIN k.workspaces
              THEN [k |-> KLog(k, "GetWorkspace", workspaceName, TRUE),
                    info |-> NilInfo, err |-> "nil"]
              ELSE [k |-> KLog(k, "GetWorkspace", workspaceName, TRUE),
                    info |-> InfoOf(k.workspaces[workspaceName]), err |-> "nil"]

\* kcp refuses a second workspace of the same name
CreateWorkspace(k, projectName, projectNamespace, projectResourceName, workspaceType, F) ==
    LET wsType == IF workspaceType = "" THEN DefaultWorkspaceType ELSE workspaceType
        ws == [Name |-> projectName, URL |-> "", Phase |-> "Scheduling",
               Type |-> wsType, ManagedBy |-> "kdp-workspace-operator",
               ProjectNamespace |-> projectNamespace,
               ProjectName |-> projectResourceName]
    IN IF projectName = <<>>
       THEN [k |-> k, info |-> NilInfo, err |-> "project name cannot be empty"]
       ELSE IF "CreateWorkspace" \in F \/ projectName \in DOMAIN k.workspaces
            THEN [k |-> KLog(k, "CreateWorkspace", projectName, FALSE),
                  info |-> NilInfo, err |-> "failed to create workspace"]
            ELSE [k |-> KLog([k EXCEPT !.workspaces = (projectName :> ws) @@ @],
                             "CreateWorkspace", projectName, TRUE),
                  info |-> InfoOf(ws), err |-> "nil"]

DeleteWorkspace(k, workspaceName, F) ==
    IF workspaceName = <<>>
    THEN [k |-> k, err |-> "workspace name cannot be empty"]
    ELSE [k |-> KLog([k EXCEPT !.workspaces =
                          [n \in DOMAIN @ \ {workspaceName} |-> @[n]]],
                     "DeleteWorkspace", workspaceName, TRUE),
          err |-> "nil"]

\* polls GetWorkspace every 5 seconds for at most 2 minutes; what the polls
\* see is what kcp did to the workspace in the meantime
WaitForWorkspaceReady(k, workspaceName, outcome, F) ==
    IF workspaceName = <<>>
    THEN [k |-> k, info |-> NilInfo, err |-> "workspace name cannot be empty"]
    ELSE IF outcome = "deleted" \/ workspaceName \notin DOMAIN k.workspaces
         THEN LET k1 == [k EXCEPT !.workspaces =
                             [n \in DOMAIN @ \ {workspaceName} |-> @[n]]]
                  g == GetWorkspace(k1, workspaceName, F)
              IN [k |-> g.k, info |-> NilInfo, err |-> "failed to wait for workspace"]
         ELSE IF outcome = "ready"
              THEN LET k1 == [k EXCEPT !.workspaces[workspaceName].Phase =
                                          LogicalClusterPhaseReady,
                                       !.workspaces[workspaceName].URL = "url"]
                       g == GetWorkspace(k1, workspaceName, F)
                   IN [k |-> g.k, info |-> g.info, err |-> g.err]
              ELSE LET g == GetWorkspace(k, workspaceName, F)
                   IN [k |-> g.k, info |-> g.info,
                       err |-> "workspace not ready after timeout"]

Condition(status, reason, message) ==
    [Type |-> WorkspaceReadyCondition, Status |-> status, Reason |-> reason,
     Message |-> message, ObservedGeneration |-> 0, LastTransitionTime |-> "zero"]

\* what updateCondition reads back of a stored condition: type, status,
\* reason and message
ParseCondition(c) ==
    [Type |-> c.Type, Status |-> c.Status, Reason |-> c.Reason,
     Message |-> c.Message, ObservedGeneration |-> 0, LastTransitionTime |-> "zero"]

\* meta.SetStatusCondition
SetStatusCondition(conditions, newCondition) ==
    IF \A i \in 1..Len(conditions) : conditions[i].Type # newCondition.Type
    THEN Append(conditions,
                IF newCondition.LastTransitionTime = "zero"
                THEN [newCondition EXCEPT !.LastTransitionTime = "now"]
                ELSE newCondition)
    ELSE LET i == CHOOSE j \in 1..Len(conditions) :
                      /\ conditions[j].Type = newCondition.Type
                      /\ \A h \in 1..(j - 1) : conditions[h].Type # newCondition.Type
             old == conditions[i]
             ltt == IF old.Status # newCondition.Status
                    THEN IF newCondition.LastTransitionTime # "zero"
                         THEN newCondition.LastTransitionTime ELSE "now"
                    ELSE old.LastTransitionTime
         IN [conditions EXCEPT ![i] =
                [old EXCEPT !.Status = newCondition.Status,
                            !.LastTransitionTime = ltt,
                            !.Reason = newCondition.Reason,
                            !.Message = newCondition.Message,
                            !.ObservedGeneration = newCondition.ObservedGeneration]]

updateCondition(k, project, condition, F) ==
    IF "Get" \in F \/ project \notin DOMAIN k.projects
    THEN [k |-> KLog(k, "Get", project, FALSE), err |-> "failed to get current project"]
    ELSE LET current == k.projects[project]
             conditions == [i \in 1..Len(current.conditions) |->
                               ParseCondition(current.conditions[i])]
             updated == SetStatusCondition(conditions, condition)
         IN IF "StatusUpdate" \in F
            THEN [k |-> KLog(k, "StatusUpdate", project, FALSE),
                  err |-> "failed to update status"]
            ELSE [k |-> KLog([k EXCEPT !.projects[project].conditions = updated],
                             "StatusUpdate", project, TRUE),
                  err |-> "nil"]

\* a faulty variant: the condition is True whatever the phase
updateWorkspaceStatus_alwaysReady(k, project, info, F) ==
    IF "Update" \in F
    THEN [k |-> KLog(k, "Update", project, FALSE), err |-> "failed to update annotations"]
    ELSE updateCondition(
             KLog([k EXCEPT !.projects[project].annotations =
                      [WorkspaceName |-> info.Name, WorkspaceURL |-> info.URL,
                       WorkspacePhase |-> info.Phase]],
                  "Update", project, TRUE),
             project,
             [Condition("True", "WorkspaceReady", <<>>) EXCEPT
                  !.ObservedGeneration = k.projects[project].generation,
                  !.LastTransitionTime = "now"], F)

updateWorkspaceStatus(k, project, info, F) ==
    IF "Update" \in F
    THEN [k |-> KLog(k, "Update", project, FALSE), err |-> "failed to update annotations"]
    ELSE LET k1 == KLog([k EXCEPT !.projects[project].annotations =
                            [WorkspaceName |-> info.Name, WorkspaceURL |-> info.URL,
                             WorkspacePhase |-> info.Phase]],
                        "Update", project, TRUE)
             base == [Condition("", "", <<>>) EXCEPT
                          !.ObservedGeneration = k.projects[project].generation,
                          !.LastTransitionTime = "now"]
             condition ==
                 IF info.Ready
                 THEN [base EXCEPT !.Status = "True", !.Reason = "WorkspaceReady",
                                   !.Message = <<"Workspace %s is ready at %s",
                                                 info.Name, info.URL>>]
                 ELSE [base EXCEPT !.Status = "False", !.Reason = "WorkspaceNotReady",
                                   !.Message = <<"Workspace %s is in phase %s",
                                                 info.Name, info.Phase>>]
         IN updateCondition(k1, project, condition, F)

\* a faulty variant: the delay of the requeue is dropped
Result_noRequeue(k, requeueAfter, err, found, created) ==
    [k |-> k, RequeueAfter |-> 0, err |-> err, found |-> found, created |-> created]

Result(k, requeueAfter, err, found, created) ==
    [k |-> k, RequeueAfter |-> requeueAfter, err |-> err, found |-> found,
     created |-> created]

\* a failed step of Reconcile: the condition is set on a best-effort basis,
\* the reconcile is requeued and the error returned
Failed(k, project, reason, message, requeueAfter, err, F) ==
    Result(updateCondition(k, project, Condition("False", reason, message), F).k,
           requeueAfter, err, FALSE, FALSE)

\* the part of Reconcile that creates the workspace
waitAndUpdate(c, project, workspaceName, outcome, F) ==
    Only({
        IF wr.err # "nil"
        THEN Result(updateWorkspaceStatus(wr.k, project, c.info, F).k,
                    RequeueCreate, wr.err, FALSE, TRUE)
        ELSE Only({ Result(u.k, 0, u.err, FALSE, TRUE)
                    : u \in {updateWorkspaceStatus(wr.k, project, wr.info, F)} })
        : wr \in {WaitForWorkspaceReady(c.k, workspaceName, outcome, F)} })

createAndWait(k, project, workspaceName, workspaceType, outcome, F) ==
    Only({
        IF c.err # "nil"
        THEN Failed(c.k, project, "CreationFailed",
                    <<"Workspace creation failed: %v">>, RequeueCreate, c.err, F)
        ELSE waitAndUpdate(c, project, workspaceName, outcome, F)
        : c \in {CreateWorkspace(
                     updateCondition(k, project,
                         Condition("False", "Creating", <<"Creating workspace in kcp">>),
                         F).k,
                     workspaceName, project.Namespace, project.Name, workspaceType, F)} })

\* a faulty variant: every request is answered by deleting the workspace
Reconcile_cleansUp(k, req, workspaceType, outcome, F) ==
    Result(DeleteWorkspace(KLog(k, "Get", req, TRUE), ToLower(req.Name), F).k,
           0, "nil", FALSE, FALSE)

Reconcile(k, req, workspaceType, outcome, F) ==
    IF "Get" \in F
    THEN Result(KLog(k, "Get", req, FALSE), 0, "failed to get Project", FALSE, FALSE)
    ELSE IF req \notin DOMAIN k.projects
    THEN Result(KLog(k, "Get", req, TRUE), 0, "nil", FALSE, FALSE)
    ELSE IF "LoadConfigFromCluster" \in F
    THEN Failed(k, req, "ConfigurationError", <<"Failed to load kcp configuration: %v">>,
                RequeueConfig, "LoadConfigFromCluster", F)
    ELSE IF "NewClient" \in F
    THEN Failed(k, req, "KCPConnectionError", <<"Failed to create kcp client: %v">>,
                RequeueConfig, "NewClient", F)
    ELSE Only({
         IF g.err # "nil"
         THEN Failed(g.k, req, "WorkspaceCheckError",
                     <<"Failed to check workspace: %v">>, RequeueConfig, g.err, F)
         ELSE IF ~g.info.nil
              THEN Only({
                   IF u.err # "nil" THEN Result(u.k, 0, u.err, TRUE, FALSE)
                   ELSE IF ~g.info.Ready
                        THEN Result(u.k, RequeueNotReady, "nil", TRUE, FALSE)
                        ELSE Result(u.k, 0, "nil", TRUE, FALSE)
                   : u \in {updateWorkspaceStatus(g.k, req, g.info, F)} })
              ELSE createAndWait(g.k, req, ToLower(req.Name), workspaceType, outcome, F)
         : g \in {GetWorkspace(k, ToLower(req.Name), F)} })

(***************************************************************************)
(* The operator: the state machine.                                        *)
(***************************************************************************)
\* Project resources that exist at the same time
MaxProjects == 1

\* ProjectReconciler.WorkspaceType as the manager is started
ReconcilerWorkspaceType == ""

\* a condition some other controller keeps on a Project
OtherCondition ==
    [Type |-> "Synced", Status |-> "True", Reason |-> "InSync", Message |-> <<"in sync">>,
     ObservedGeneration |-> 1, LastTransitionTime |-> "t0"]

NewProject ==
    [annotations |-> [WorkspaceName |-> <<>>, WorkspaceURL |-> "", WorkspacePhase |-> ""],
     conditions |-> <<OtherCondition>>, generation |-> 1]

Kcp == [projects |-> k8sProjects, workspaces |-> kcpWorkspaces, calls |-> <<>>]

NoReconcile ==
    [op |-> "idle", req |-> [Namespace |-> "", Name |-> <<>>], RequeueAfter |-> 0,
     err |-> "nil", found |-> FALSE, created |-> FALSE, calls |-> <<>>]

KcpInit ==
    /\ k8sProjects = <<>>
    /\ kcpWorkspaces = <<>>
    /\ lastReconcile = NoReconcile
    /\ workqueue = {}

\* kubectl apply of a Project; the watch queues a request for it
CreateProject ==
    /\ lastReconcile.op = "idle"
    /\ Cardinality(DOMAIN k8sProjects) < MaxProjects
    /\ \E key \in ProjectKeys \ DOMAIN k8sProjects :
          /\ k8sProjects' = (key :> NewProject) @@ k8sProjects
          /\ workqueue' = workqueue \cup {key}
    /\ UNCHANGED <<kcpWorkspaces, lastReconcile, onboardVars, syncVars, bootVars, clientVars, deliveries>>

\* kubectl delete of a Project; the watch queues a request for it
DeleteProject ==
    /\ lastReconcile.op = "idle"
    /\ \E key \in DOMAIN k8sProjects :
          /\ k8sProjects' = [x \in DOMAIN k8sProjects \ {key} |-> k8sProjects[x]]
          /\ workqueue' = workqueue \cup {key}
    /\ UNCHANGED <<kcpWorkspaces, lastReconcile, onboardVars, syncVars, bootVars, clientVars, deliveries>>

\* kcp schedules and initializes a workspace
WorkspaceProgress ==
    /\ lastReconcile.op = "idle"
    /\ \E n \in DOMAIN kcpWorkspaces :
          \/ /\ kcpWorkspaces[n].Phase = "Scheduling"
             /\ kcpWorkspaces' = [kcpWorkspaces EXCEPT ![n].Phase = "Initializing",
                                                       ![n].URL = "url"]
          \/ /\ kcpWorkspaces[n].Phase = "Initializing"
             /\ kcpWorkspaces' = [kcpWorkspaces EXCEPT
                                     ![n].Phase = LogicalClusterPhaseReady]
    /\ UNCHANGED <<k8sProjects, lastReconcile, workqueue, onboardVars, syncVars, bootVars, clientVars, deliveries>>

\* one run of Reconcile; the controller queues the request again when
\* Reconcile returns an error or a delay, and the watch queues it when the
\* run has changed the Project
RunReconcile(req) ==
    /\ \E outcome \in WaitOutcomes, F \in KcpFaultSets :
        \E res \in {Reconcile(Kcp, req, ReconcilerWorkspaceType, outcome, F)} :
        /\ k8sProjects' = res.k.projects
        /\ kcpWorkspaces' = res.k.workspaces
        /\ lastReconcile' = [op |-> "Reconcile", req |-> req,
                             RequeueAfter |-> res.RequeueAfter, err |-> res.err,
                             found |-> res.found, created |-> res.created,
                             calls |-> res.k.calls]
        /\ workqueue' = IF \/ res.err # "nil"
                           \/ res.RequeueAfter > 0
                           \/ (req \in DOMAIN k8sProjects
                                /\ res.k.projects[req] # k8sProjects[req])
                        THEN workqueue \cup {req} ELSE workqueue \ {req}
    /\ UNCHANGED <<onboardVars, syncVars, bootVars, clientVars, deliveries>>

\* the controller runs Reconcile for a request, whatever has caused it
ReconcileProject ==
    /\ lastReconcile.op = "idle"
    /\ \E req \in ProjectKeys : RunReconcile(req)

\* a worker of the controller takes a request from the queue
DequeueRequest(key) ==
    /\ lastReconcile.op = "idle"
    /\ key \in workqueue
    /\ workqueue' = workqueue \ {key}
    /\ lastReconcile' = [NoReconcile EXCEPT !.op = "dequeued", !.req = key]
    /\ UNCHANGED <<k8sProjects, kcpWorkspaces, onboardVars, syncVars, bootVars,
                   clientVars, deliveries>>

Dequeue == \E key \in ProjectKeys : DequeueRequest(key)

\* the worker runs Reconcile for the request it took
ReconcileDequeued ==
    /\ lastReconcile.op = "dequeued"
    /\ RunReconcile(lastReconcile.req)

\* Reconcile has returned to the controller
ReconcileReturned ==
    /\ lastReconcile.op = "Reconcile"
    /\ lastReconcile' = NoReconcile
    /\ UNCHANGED <<k8sProjects, kcpWorkspaces, workqueue, onboardVars, syncVars, bootVars, clientVars, deliveries>>

(***************************************************************************)
(* WaitForWorkspaceReady on its own, poll by poll.  The clock counts the   *)
(* seconds since the call; wait.PollUntilContextTimeout runs the condition *)
(* at once and then at every tick of the interval, under a context that    *)
(* expires at the timeout and that every request of the condition carries. *)
(***************************************************************************)
\* seconds
WorkspaceReadyTimeout == 120
WorkspaceCheckInterval == 5

\* how long a request to kcp takes: no time, one interval, two intervals, or
\* longer than the whole wait
RequestDurations == {0, WorkspaceCheckInterval, 2 * WorkspaceCheckInterval,
                     WorkspaceReadyTimeout + WorkspaceCheckInterval}

\* a faulty variant: the context does not expire
ExpiresAt_never(t) == t

\* the time at which something that would end at t ends under the context
ExpiresAt(t) == IF t >= WorkspaceReadyTimeout THEN WorkspaceReadyTimeout ELSE t

\* the condition of the poll: [done, err, lastInfo]
PollCondition(lastInfo, g) ==
    IF g.err # "nil" THEN [done |-> FALSE, err |-> g.err, lastInfo |-> lastInfo]
    ELSE IF g.info.nil
         THEN [done |-> FALSE, err |-> "workspace not found", lastInfo |-> lastInfo]
         ELSE [done |-> g.info.Ready, err |-> "nil", lastInfo |-> g.info]

\* what WaitForWorkspaceReady returns once the poll has ended with err
WaitResult(lastInfo, err) ==
    IF err # "nil"
    THEN IF ~lastInfo.nil
         THEN [info |-> lastInfo, err |-> "workspace not ready after timeout"]
         ELSE [info |-> NilInfo, err |-> "failed to wait for workspace"]
    ELSE [info |-> lastInfo, err |-> "nil"]

NoWait ==
    [op |-> "idle", name |-> <<>>, next |-> 0, elapsed |-> 0, polls |-> 0,
     lastInfo |-> NilInfo, sawReady |-> FALSE, info |-> NilInfo, err |-> "nil"]

WaitAtRest == lastWait = NoWait

\* the workspace of a Project has just been created, or is not there
WaitInit ==
    /\ k8sProjects = <<>>
    /\ kcpWorkspaces \in
          { <<>>,
            CreateWorkspace([projects |-> <<>>, workspaces |-> <<>>, calls |-> <<>>],
                            Name_a, "ns1", Name_a, "", {}).k.workspaces }
    /\ lastReconcile = NoReconcile
    /\ workqueue = {}
    /\ lastWait = NoWait

Returned(w, elapsed, lastInfo, sawReady, err) ==
    [w EXCEPT !.op = "returned", !.elapsed = elapsed, !.polls = @ + 1,
              !.lastInfo = lastInfo, !.sawReady = sawReady,
              !.info = WaitResult(lastInfo, err).info,
              !.err = WaitResult(lastInfo, err).err]

\* WaitForWorkspaceReady is called
WaitCalled ==
    /\ lastWait.op = "idle"
    /\ \E name \in {<<>>, Name_a} :
          lastWait' = IF name = <<>>
                      THEN [NoWait EXCEPT !.op = "returned",
                                          !.err = "workspace name cannot be empty"]
                      ELSE [NoWait EXCEPT !.op = "polling", !.name = name]
    /\ UNCHANGED <<onboardVars, kcpVars, syncVars, bootVars, lastCreateTeam, lastPending,
                   lastSanitize, deliveries>>

\* one run of the condition: a request that the deadline cuts short fails
\* with the error of the context; after a run that is not done the next one
\* starts at the first tick that follows, unless the context expires first
Poll ==
    /\ lastWait.op = "polling"
    /\ \E d \in RequestDurations, F \in {{}, {"GetWorkspace"}} :
        \E finish \in {ExpiresAt(lastWait.next + d)},
           g \in {GetWorkspace(Kcp, lastWait.name, F)} :
        \E c \in {IF lastWait.next + d >= WorkspaceReadyTimeout
                  THEN [done |-> FALSE, err |-> "context deadline exceeded",
                        lastInfo |-> lastWait.lastInfo]
                  ELSE PollCondition(lastWait.lastInfo, g)} :
           lastWait' =
              IF c.err # "nil" \/ c.done
              THEN Returned(lastWait, finish, c.lastInfo, c.done, c.err)
              ELSE IF lastWait.next + (IF d > WorkspaceCheckInterval THEN d
                                       ELSE WorkspaceCheckInterval)
                          >= WorkspaceReadyTimeout
                   THEN Returned(lastWait,
                                 ExpiresAt(lastWait.next + WorkspaceReadyTimeout),
                                 c.lastInfo, FALSE, "context deadline exceeded")
                   ELSE [lastWait EXCEPT
                            !.next = @ + (IF d > WorkspaceCheckInterval THEN d
                                          ELSE WorkspaceCheckInterval),
                            !.polls = @ + 1, !.lastInfo = c.lastInfo]
    /\ UNCHANGED <<onboardVars, kcpVars, syncVars, bootVars, lastCreateTeam, lastPending,
                   lastSanitize, deliveries>>

\* the caller has the result
WaitReturned ==
    /\ lastWait.op = "returned"
    /\ lastWait' = NoWait
    /\ UNCHANGED <<onboardVars, kcpVars, syncVars, bootVars, lastCreateTeam, lastPending,
                   lastSanitize, deliveries>>

\* somebody deletes the workspace in kcp
WorkspaceDeleted ==
    /\ \E n \in DOMAIN kcpWorkspaces :
          kcpWorkspaces' = [x \in DOMAIN kcpWorkspaces \ {n} |-> kcpWorkspaces[x]]
    /\ UNCHANGED <<k8sProjects, lastReconcile, workqueue, onboardVars, syncVars, bootVars,
                   clientVars, deliveries>>

(***************************************************************************)
(* The sync job (cmd/sync): database rows to custom resources.             *)
(***************************************************************************)
Digits == {"0", "1", "2", "3", "4", "5", "6", "7", "8", "9"}
Str_unnamed == <<"u", "n", "n", "a", "m", "e", "d">>

\* the longest name sanitizeName returns
MaxNameLen == 63

\* the complement of dns1123InvalidChars
IsValidChar(c) ==
    c \in {LowerChars[i] : i \in 1..Len(LowerChars)} \cup Digits \cup {"-", "."}

\* dns1123InvalidChars.ReplaceAllString(s, "-"): every maximal run of other
\* characters becomes one "-"
RECURSIVE ReplaceInvalid(_, _)
ReplaceInvalid(s, inRun) ==
    IF s = <<>> THEN <<>>
    ELSE IF IsValidChar(Head(s)) THEN <<Head(s)>> \o ReplaceInvalid(Tail(s), FALSE)
    ELSE IF inRun THEN ReplaceInvalid(Tail(s), TRUE)
    ELSE <<"-">> \o ReplaceInvalid(Tail(s), TRUE)

sanitizeName(s) ==
    IF s = <<>> THEN Str_unnamed
    ELSE LET t == Trim(ReplaceInvalid(ToLower(TrimSpace(s)), FALSE), {"-", "."}) IN
         IF t = <<>> THEN Str_unnamed
         ELSE IF Len(t) > MaxNameLen
              THEN LET u == Trim(SubSeq(t, 1, MaxNameLen), {"-", "."}) IN
                   IF u = <<>> THEN Str_unnamed ELSE u
              ELSE t

\* ---- sanitizeName on its own: the names it is given ----
\* the characters of the names: a lowercase letter, an uppercase letter, a
\* digit, the two punctuation marks the expression keeps, a space and a
\* character the expression replaces
NameChars == {"a", "B", "1", "-", ".", " ", "@"}

\* the longest tail of a name
MaxTail == 3

\* the lengths of the run of letters a name starts with: none, and the two
\* that bring the tail across the 63rd character
PrefixLens == {0, 61, 62}

Letters(n) == [i \in 1..n |-> "a"]

Tails == UNION {[1..n -> NameChars] : n \in 0..MaxTail}

SanitizeInputs == {Letters(n) \o t : n \in PrefixLens, t \in Tails}

NoSanitize == [op |-> "idle", s |-> <<>>, result |-> <<>>]

SanitizeAtRest == lastSanitize = NoSanitize

\* a caller is about to pass a name
SanitizeInit == lastSanitize \in {[NoSanitize EXCEPT !.s = s] : s \in SanitizeInputs}

\* the call of sanitizeName
SanitizeName ==
    /\ lastSanitize.op = "idle"
    /\ lastSanitize' = [lastSanitize EXCEPT !.op = "sanitizeName",
                                            !.result = sanitizeName(lastSanitize.s)]
    /\ UNCHANGED <<onboardVars, kcpVars, syncVars, bootVars, lastCreateTeam, lastPending,
                   lastWait, deliveries>>

\* a nil *ResourceReference
NoRef == <<>>

timePtrEqual(a, b) ==
    IF a = "nil" /\ b = "nil" THEN TRUE
    ELSE IF a = "nil" \/ b = "nil" THEN FALSE
    ELSE a = b

staffSpecEqual(a, b) ==
    /\ a.DisplayName = b.DisplayName
    /\ a.PrimaryEmail = b.PrimaryEmail
    /\ a.GitHubAccount = b.GitHubAccount
    /\ a.GitHubEmail = b.GitHubEmail
    /\ timePtrEqual(a.RegisteredAt, b.RegisteredAt)
    /\ (a.FoundationRef = NoRef) = (b.FoundationRef = NoRef)
    /\ a.FoundationRef # NoRef => a.FoundationRef = b.FoundationRef

maintainerSpecEqual(a, b) ==
    /\ a.DisplayName = b.DisplayName
    /\ a.PrimaryEmail = b.PrimaryEmail
    /\ a.GitHubAccount = b.GitHubAccount
    /\ a.GitHubEmail = b.GitHubEmail
    /\ a.Status = b.Status
    /\ timePtrEqual(a.RegisteredAt, b.RegisteredAt)
    /\ (a.CompanyRef = NoRef) = (b.CompanyRef = NoRef)
    /\ a.CompanyRef # NoRef => a.CompanyRef = b.CompanyRef

\* the maintainer references are compared by length and as sets of names
projectSpecEqual(a, b) ==
    /\ a.DisplayName = b.DisplayName
    /\ a.Maturity = b.Maturity
    /\ a.MailingList = b.MailingList
    /\ a.OnboardingIssue = b.OnboardingIssue
    /\ (a.ParentProjectRef = NoRef) = (b.ParentProjectRef = NoRef)
    /\ a.ParentProjectRef # NoRef => a.ParentProjectRef = b.ParentProjectRef
    /\ (a.MaintainerLeadRef = NoRef) = (b.MaintainerLeadRef = NoRef)
    /\ a.MaintainerLeadRef # NoRef => a.MaintainerLeadRef = b.MaintainerLeadRef
    /\ Len(a.MaintainerRefs) = Len(b.MaintainerRefs)
    /\ \A i \in 1..Len(b.MaintainerRefs) :
          \E j \in 1..Len(a.MaintainerRefs) : a.MaintainerRefs[j] = b.MaintainerRefs[i]

\* the comparison syncCompanies and syncMemberships make in line
companySpecEqual(a, b) == a.DisplayName = b.DisplayName

membershipSpecEqual(a, b) ==
    a.ProjectRef = b.ProjectRef /\ a.MaintainerRef = b.MaintainerRef

specEqual(kind, a, b) ==
    IF kind = "Company" THEN companySpecEqual(a, b)
    ELSE IF kind = "StaffMember" THEN staffSpecEqual(a, b)
    ELSE IF kind = "Maintainer" THEN maintainerSpecEqual(a, b)
    ELSE IF kind = "Project" THEN projectSpecEqual(a, b)
    ELSE membershipSpecEqual(a, b)

\* the calls of a sync run that can fail
SyncFaultPoints ==
    { "ListCompanies", "ListStaffMembers", "GetMaintainerMapByEmail",
      "GetProjectMapByName", "Get", "Create", "Update" }

SyncFaultSets == {F \in SUBSET SyncFaultPoints : Cardinality(F) <= MaxFaults}

SLog(c, api, kind, name, ok) ==
    [c EXCEPT !.calls = Append(@, [api |-> api, kind |-> kind, name |-> name, ok |-> ok])]

\* the Get / Create / Update of one resource that every sync loop makes
Apply(c, kind, name, spec, F) ==
    LET key == <<kind, name>> IN
    IF "Get" \in F THEN [c |-> SLog(c, "Get", kind, name, FALSE), err |-> "get failed"]
    ELSE IF key \notin DOMAIN c.objects
         THEN IF "Create" \in F
              THEN [c |-> SLog(c, "Create", kind, name, FALSE), err |-> "create failed"]
              ELSE [c |-> SLog([c EXCEPT !.objects = (key :> spec) @@ @],
                               "Create", kind, name, TRUE),
                    err |-> "nil"]
         ELSE IF specEqual(kind, c.objects[key], spec)
              THEN [c |-> c, err |-> "nil"]
              ELSE IF "Update" \in F
                   THEN [c |-> SLog(c, "Update", kind, name, FALSE),
                         err |-> "update failed"]
                   ELSE [c |-> SLog([c EXCEPT !.objects[key] = spec],
                                    "Update", kind, name, TRUE),
                         err |-> "nil"]

\* one loop of the sync: the resources are applied in order until one fails
RECURSIVE ApplyAll(_, _, _, _)
ApplyAll(c, kind, items, F) ==
    IF items = <<>> THEN [c |-> c, err |-> "nil"]
    ELSE LET r == Apply(c, kind, Head(items).name, Head(items).spec, F) IN
         IF r.err # "nil" THEN r ELSE ApplyAll(r.c, kind, Tail(items), F)

\* all the orders a Go map with these keys can be iterated in
Orders(S) ==
    {o \in [1..Cardinality(S) -> S] : \A i, j \in 1..Cardinality(S) : o[i] = o[j] => i = j}

\* a map built by a loop over the rows: a later row replaces an earlier one
\* of the same key
LastRow(rows, keys, key) ==
    rows[CHOOSE i \in 1..Len(rows) :
            /\ keys[i] = key
            /\ \A j \in (i + 1)..Len(rows) : keys[j] # key]

\* the keys of the two maps, row by row
EmailOf(rows) == [i \in 1..Len(rows) |-> rows[i].Email]
NameOf(rows) == [i \in 1..Len(rows) |-> rows[i].Name]

\* db.Preload("Company"): the zero Company when there is none
CompanyNameOf(db, companyID) ==
    IF \E i \in 1..Len(db.companies) : db.companies[i].ID = companyID
    THEN db.companies[CHOOSE i \in 1..Len(db.companies) :
                          db.companies[i].ID = companyID].Name
    ELSE <<>>

\* db.Preload("Maintainers")
MaintainersOf(db, p) ==
    [i \in 1..Len(p.Maintainers) |->
        db.maintainers[CHOOSE j \in 1..Len(db.maintainers) :
                           db.maintainers[j].ID = p.Maintainers[i]]]

CompanyItem(comp) ==
    [name |-> sanitizeName(comp.Name), spec |-> [DisplayName |-> comp.Name]]

StaffItem(staff) ==
    LET nameSource == IF staff.Email # <<>> THEN staff.Email
                      ELSE IF staff.GitHubAccount # <<>> THEN staff.GitHubAccount
                      ELSE staff.Name
    IN [name |-> sanitizeName(nameSource),
        spec |-> [DisplayName |-> staff.Name, PrimaryEmail |-> staff.Email,
                  GitHubAccount |-> staff.GitHubAccount,
                  GitHubEmail |-> staff.GitHubEmail,
                  RegisteredAt |-> staff.RegisteredAt,
                  FoundationRef |-> IF staff.FoundationID # 0 /\ staff.FoundationName # <<>>
                                    THEN sanitizeName(staff.FoundationName)
                                    ELSE NoRef]]

MaintainerItem(db, m) ==
    [name |-> sanitizeName(m.Email),
     spec |-> [DisplayName |-> m.Name, PrimaryEmail |-> m.Email,
               GitHubAccount |-> m.GitHubAccount, GitHubEmail |-> m.GitHubEmail,
               Status |-> IF m.MaintainerStatus = "" THEN "Active"
                          ELSE m.MaintainerStatus,
               RegisteredAt |-> m.RegisteredAt,
               CompanyRef |-> IF m.CompanyID # 0 /\ CompanyNameOf(db, m.CompanyID) # <<>>
                              THEN sanitizeName(CompanyNameOf(db, m.CompanyID))
                              ELSE NoRef]]

ProjectItem(db, p) ==
    LET ms == MaintainersOf(db, p)
        parents == {i \in 1..Len(db.projects) : db.projects[i].ID = p.ParentProjectID}
    IN [name |-> sanitizeName(p.Name),
        spec |-> [DisplayName |-> p.Name, Maturity |-> p.Maturity,
                  OnboardingIssue |-> IF p.OnboardingIssue = "nil" THEN ""
                                      ELSE p.OnboardingIssue,
                  MaintainerRefs |-> [i \in 1..Len(ms) |-> sanitizeName(ms[i].Email)],
                  MailingList |-> IF p.MailingList = "nil" THEN "" ELSE p.MailingList,
                  MaintainerLeadRef |-> IF p.MaintainerRef # <<>>
                                        THEN sanitizeName(p.MaintainerRef) ELSE NoRef,
                  ParentProjectRef |->
                      IF p.ParentProjectID # 0 /\ parents # {}
                      THEN sanitizeName(db.projects[CHOOSE i \in parents : TRUE].Name)
                      ELSE NoRef]]

MembershipItem(p, m) ==
    [name |-> sanitizeName(p.Name \o <<"-">> \o m.Email),
     spec |-> [ProjectRef |-> sanitizeName(p.Name),
               MaintainerRef |-> sanitizeName(m.Email)]]

syncCompanies(db, c, F) ==
    IF "ListCompanies" \in F THEN [c |-> c, err |-> "ListCompanies"]
    ELSE ApplyAll(c, "Company",
                  [i \in 1..Len(db.companies) |-> CompanyItem(db.companies[i])], F)

syncStaff(db, c, F) ==
    IF "ListStaffMembers" \in F THEN [c |-> c, err |-> "ListStaffMembers"]
    ELSE ApplyAll(c, "StaffMember",
                  [i \in 1..Len(db.staff) |-> StaffItem(db.staff[i])], F)

syncMaintainers(db, c, order, F) ==
    IF "GetMaintainerMapByEmail" \in F THEN [c |-> c, err |-> "GetMaintainerMapByEmail"]
    ELSE ApplyAll(c, "Maintainer",
                  [i \in 1..Len(order) |->
                      MaintainerItem(db, LastRow(db.maintainers,
                                                 EmailOf(db.maintainers), order[i]))], F)

syncProjects(db, c, order, F) ==
    IF "GetProjectMapByName" \in F THEN [c |-> c, err |-> "GetProjectMapByName"]
    ELSE ApplyAll(c, "Project",
                  [i \in 1..Len(order) |->
                      ProjectItem(db, LastRow(db.projects, NameOf(db.projects), order[i]))], F)

\* the memberships of the projects, project by project
RECURSIVE MembershipItems(_, _)
MembershipItems(db, order) ==
    IF order = <<>> THEN <<>>
    ELSE LET p == LastRow(db.projects, NameOf(db.projects), Head(order))
             ms == MaintainersOf(db, p)
         IN [i \in 1..Len(ms) |-> MembershipItem(p, ms[i])]
            \o MembershipItems(db, Tail(order))

syncMemberships(db, c, order, F) ==
    IF "GetProjectMapByName" \in F THEN [c |-> c, err |-> "GetProjectMapByName"]
    ELSE ApplyAll(c, "ProjectMembership", MembershipItems(db, order), F)

\* mo, po and po2 are the orders in which the maps of maintainers and of
\* projects happen to be iterated
syncAll(db, c, mo, po, po2, F) ==
    LET r1 == syncCompanies(db, c, F) IN
    IF r1.err # "nil" THEN [c |-> r1.c, err |-> "companies"]
    ELSE LET r2 == syncStaff(db, r1.c, F) IN
    IF r2.err # "nil" THEN [c |-> r2.c, err |-> "staffmembers"]
    ELSE LET r3 == syncMaintainers(db, r2.c, mo, F) IN
    IF r3.err # "nil" THEN [c |-> r3.c, err |-> "maintainers"]
    ELSE LET r4 == syncProjects(db, r3.c, po, F) IN
    IF r4.err # "nil" THEN [c |-> r4.c, err |-> "projects"]
    ELSE LET r5 == syncMemberships(db, r4.c, po2, F) IN
    IF r5.err # "nil" THEN [c |-> r5.c, err |-> "projectmemberships"]
    ELSE [c |-> r5.c, err |-> "nil"]

(***************************************************************************)
(* The sync job: the tables it runs on and the state machine.              *)
(***************************************************************************)
Co_Acme == [ID |-> 1, Name |-> <<"A", "c">>]
Co_acme == [ID |-> 2, Name |-> <<"a", "c">>]

St_sam ==
    [Name |-> <<"S">>, Email |-> <<"s", "@", "x">>, GitHubAccount |-> <<"s">>,
     GitHubEmail |-> <<>>, RegisteredAt |-> "nil", FoundationID |-> 1,
     FoundationName |-> <<"L", "F">>]
\* a staff member of whom nothing but the registration date is known
St_blank ==
    [Name |-> <<>>, Email |-> <<>>, GitHubAccount |-> <<>>, GitHubEmail |-> <<>>,
     RegisteredAt |-> "t1", FoundationID |-> 0, FoundationName |-> <<>>]

M_alice ==
    [ID |-> 1, Name |-> <<"A">>, Email |-> Email_alice, GitHubAccount |-> <<"a">>,
     GitHubEmail |-> Email_alice, MaintainerStatus |-> "", RegisteredAt |-> "t1",
     CompanyID |-> 1]
M_bob ==
    [ID |-> 2, Name |-> <<"B">>, Email |-> Email_bob, GitHubAccount |-> <<"b">>,
     GitHubEmail |-> <<>>, MaintainerStatus |-> "Emeritus", RegisteredAt |-> "nil",
     CompanyID |-> 0]
\* a second row with the email of alice
M_alias ==
    [M_alice EXCEPT !.ID = 3, !.Name = <<"A", "2">>, !.GitHubAccount = <<"a", "2">>]

P_alpha(maintainers) ==
    [ID |-> 1, Name |-> <<"A", "l">>, Maturity |-> "Sandbox", MaintainerRef |-> <<>>,
     OnboardingIssue |-> "nil", MailingList |-> "nil", ParentProjectID |-> 0,
     Maintainers |-> maintainers]
P_beta ==
    [ID |-> 2, Name |-> <<"b", "e">>, Maturity |-> "Graduated",
     MaintainerRef |-> Email_bob, OnboardingIssue |-> "issue", MailingList |-> "list",
     ParentProjectID |-> 1, Maintainers |-> <<>>]

DB(co, st, ma, pr) == [companies |-> co, staff |-> st, maintainers |-> ma, projects |-> pr]

\* the databases the job is run on: an empty one, one project with one
\* maintainer, two companies whose names differ in case only, two maintainer
\* rows with one email, and two projects with two maintainers
Databases ==
    { DB(<<>>, <<>>, <<>>, <<>>),
      DB(<<Co_Acme>>, <<St_sam>>, <<M_alice>>, <<P_alpha(<<1>>)>>),
      DB(<<Co_Acme, Co_acme>>, <<St_sam, St_blank>>, <<M_alice>>, <<P_alpha(<<1>>)>>),
      DB(<<Co_Acme>>, <<St_sam>>, <<M_alice, M_alias>>, <<P_alpha(<<1, 3>>)>>),
      DB(<<Co_acme>>, <<St_blank>>, <<M_alice, M_bob>>, <<P_alpha(<<2, 1>>), P_beta>>) }

Cluster == [objects |-> cluster, calls |-> <<>>]

NoSync == [op |-> "idle", err |-> "nil", calls |-> <<>>]

SyncInit ==
    /\ syncDB \in Databases
    /\ cluster = <<>>
    /\ lastSync = NoSync

\* the database is edited between two runs of the job
ChangeDB ==
    /\ lastSync.op = "idle"
    /\ \E db \in Databases \ {syncDB} : syncDB' = db
    /\ UNCHANGED <<cluster, lastSync, onboardVars, kcpVars, bootVars, clientVars, deliveries>>

\* one run of the job
RunSyncAll ==
    /\ \E mo \in Orders({syncDB.maintainers[i].Email : i \in 1..Len(syncDB.maintainers)}),
          po \in Orders({syncDB.projects[i].Name : i \in 1..Len(syncDB.projects)}),
          po2 \in Orders({syncDB.projects[i].Name : i \in 1..Len(syncDB.projects)}),
          F \in SyncFaultSets :
        LET res == syncAll(syncDB, Cluster, mo, po, po2, F) IN
        /\ cluster' = res.c.objects
        /\ lastSync' = [op |-> "syncAll", err |-> res.err, calls |-> res.c.calls]
    /\ UNCHANGED <<syncDB, onboardVars, kcpVars, bootVars, clientVars, deliveries>>

\* the CronJob runs the sync
SyncAll == lastSync.op = "idle" /\ RunSyncAll

\* the CronJob runs the sync once more while nothing else has happened since
\* its last run
SyncAllAgain == lastSync.op = "syncAll" /\ RunSyncAll

\* the job has exited
SyncExited ==
    /\ lastSync.op # "idle"
    /\ lastSync' = NoSync
    /\ UNCHANGED <<syncDB, cluster, onboardVars, kcpVars, bootVars, clientVars, deliveries>>

(***************************************************************************)
(* The bootstrap command: the import of the spreadsheet and of FOSSA's     *)
(* users into the database (gorm on SQLite).                               *)
(***************************************************************************)
\* how many ServiceUserTeams rows the model lets the table grow to
MaxLinks == 3
\* how many rows a spreadsheet of the model has at most
MaxRows == 2

\* the letters U+00C9 and U+00E9, written as one character each
Str_Eacute == "^E"
Str_eacute == "^e"

\* strings.ToLower folds every letter of Unicode
GoToLowerChar(c) == IF c = Str_Eacute THEN Str_eacute ELSE ToLowerChar(c)
GoToLower(s) == [i \in 1..Len(s) |-> GoToLowerChar(s[i])]

\* LOWER() of SQLite folds the letters of ASCII only
SqlLower(s) == [i \in 1..Len(s) |-> ToLowerChar(s[i])]

\* the column default of git_hub_account and git_hub_email
Str_GITHUB_MISSING ==
    <<"G", "I", "T", "H", "U", "B", "_", "M", "I", "S", "S", "I", "N", "G">>

\* the statements of each operation that can fail in the database
ImportFaultPoints ==
    {"FirstParent", "FirstOrCreateProject", "FirstOrCreateCompany",
     "FirstOrCreateMaintainer", "AppendProjects"}
MapFaultPoints == {"FirstByHandle", "FirstByEmail"}
LinkFaultPoints == {"FirstOrCreateLink", "SaveLink", "CreateLink"}
BootFaultSets(points) == {F \in SUBSET points : Cardinality(F) <= MaxFaults}

\* First: the matching row with the least primary key, 0 when there is none
FirstOf(S) == IF S = {} THEN 0 ELSE CHOOSE i \in S : \A j \in S : i <= j

\* a faulty variant: the project is created without looking for it
FirstOrCreateProject_alwaysCreates(db, project, F) ==
    [db |-> [db EXCEPT !.projects =
                 Append(@, [project EXCEPT !.ID = Len(db.projects) + 1])],
     ID |-> Len(db.projects) + 1, err |-> "nil"]

\* db.FirstOrCreate(&project, model.Project{Name: project.Name})
FirstOrCreateProject(db, project, F) ==
    IF "FirstOrCreateProject" \in F THEN [db |-> db, ID |-> 0, err |-> "db error"]
    ELSE Only({
         IF i # 0 THEN [db |-> db, ID |-> db.projects[i].ID, err |-> "nil"]
         ELSE [db |-> [db EXCEPT !.projects =
                              Append(@, [project EXCEPT !.ID = Len(db.projects) + 1])],
               ID |-> Len(db.projects) + 1, err |-> "nil"]
         : i \in {FirstOf({j \in 1..Len(db.projects) :
                               db.projects[j].Name = project.Name})} })

\* db.FirstOrCreate(&company, model.Company{Name: company.Name})
FirstOrCreateCompany(db, company, F) ==
    IF "FirstOrCreateCompany" \in F THEN [db |-> db, ID |-> 0, err |-> "db error"]
    ELSE Only({
         IF i # 0 THEN [db |-> db, ID |-> db.companies[i].ID, err |-> "nil"]
         ELSE [db |-> [db EXCEPT !.companies =
                              Append(@, [company EXCEPT !.ID = Len(db.companies) + 1])],
               ID |-> Len(db.companies) + 1, err |-> "nil"]
         : i \in {FirstOf({j \in 1..Len(db.companies) :
                               db.companies[j].Name = company.Name})} })

\* tx.Where("email = ?", email).FirstOrCreate(&maintainer); an empty column
\* with a default is stored as its default
FirstOrCreateMaintainer(db, email, maintainer, F) ==
    IF "FirstOrCreateMaintainer" \in F THEN [db |-> db, ID |-> 0, err |-> "db error"]
    ELSE Only({
         IF i # 0 THEN [db |-> db, ID |-> db.maintainers[i].ID, err |-> "nil"]
         ELSE [db |-> [db EXCEPT !.maintainers =
                   Append(@, [maintainer EXCEPT
                       !.ID = Len(db.maintainers) + 1,
                       !.GitHubAccount = IF @ = <<>> THEN Str_GITHUB_MISSING ELSE @,
                       !.GitHubEmail = IF @ = <<>> THEN Str_GITHUB_MISSING ELSE @])],
               ID |-> Len(db.maintainers) + 1, err |-> "nil"]
         : i \in {FirstOf({j \in 1..Len(db.maintainers) :
                               db.maintainers[j].Email = email})} })

\* tx.Model(&maintainer).Association("Projects").Append(&project)
AppendProjects(db, maintainerID, projectID, F) ==
    IF "AppendProjects" \in F THEN [db |-> db, err |-> "db error"]
    ELSE [db |-> [db EXCEPT !.maintainerProjects = @ \cup {<<maintainerID, projectID>>}],
          err |-> "nil"]

\* the lookup of the parent project of a row: its ID, 0 when the row names
\* none, when it is not found and when the lookup fails
parentOf(db, row, F) ==
    IF row.Parent = "" \/ "FirstParent" \in F THEN 0
    ELSE Only({ IF i = 0 THEN 0 ELSE db.projects[i].ID
                : i \in {FirstOf({j \in 1..Len(db.projects) :
                                      db.projects[j].Name = row.Parent})} })

\* the end of the transaction of a row: maintainer and association
importMaintainer(db, row, projectID, companyID, F) ==
    Only({
        IF m.err # "nil" THEN m
        ELSE AppendProjects(m.db, m.ID, projectID, F)
        : m \in {FirstOrCreateMaintainer(db, row.Email,
                     [ID |-> 0, Email |-> row.Email, GitHubAccount |-> row.GitHub,
                      GitHubEmail |-> row.GitHubEmail, CompanyID |-> companyID], F)} })

\* the transaction of a row after its project: company, maintainer
importPerson(db, row, projectID, F) ==
    IF row.Company = "" THEN importMaintainer(db, row, projectID, 0, F)
    ELSE Only({
         IF c.err # "nil" THEN c
         ELSE importMaintainer(c.db, row, projectID, c.ID, F)
         : c \in {FirstOrCreateCompany(db, [ID |-> 0, Name |-> row.Company], F)} })

\* the transaction of one row of the sheet
importRow(db, row, F) ==
    Only({
        IF p.err # "nil" THEN p
        ELSE IF row.Email = <<>> THEN [db |-> p.db, err |-> "nil"]
        ELSE importPerson(p.db, row, p.ID, F)
        : p \in {FirstOrCreateProject(db,
                     [ID |-> 0, Name |-> row.Project,
                      ParentProjectID |-> parentOf(db, row, F)], F)} })

\* loadMaintainersAndProjects over the rows read from the sheet: a row
\* without a project is skipped, a transaction that fails is rolled back and
\* the row is skipped
RECURSIVE loadMaintainersAndProjects(_, _, _)
loadMaintainersAndProjects(db, rows, F) ==
    IF rows = <<>> THEN db
    ELSE IF Head(rows).Project = "" THEN loadMaintainersAndProjects(db, Tail(rows), F)
    ELSE Only({
         loadMaintainersAndProjects(IF r.err = "nil" THEN r.db ELSE db, Tail(rows), F)
         : r \in {importRow(db, Head(rows), F)} })

\* MapFossaUserToMaintainer: the ID of the maintainer found, 0 for nil
MapFossaUserToMaintainer(db, email, github, F) ==
    Only({
        IF github # <<>> /\ "FirstByHandle" \in F THEN 0
        ELSE IF github # <<>> /\ h # 0 THEN db.maintainers[h].ID
        ELSE IF "FirstByEmail" \in F THEN 0
        ELSE IF e # 0 THEN db.maintainers[e].ID
        ELSE 0
        : h \in {FirstOf({j \in 1..Len(db.maintainers) :
                     SqlLower(db.maintainers[j].GitHubAccount) = GoToLower(github)})},
          e \in {FirstOf({j \in 1..Len(db.maintainers) :
                     \/ SqlLower(db.maintainers[j].Email) = GoToLower(email)
                     \/ SqlLower(db.maintainers[j].GitHubEmail) = GoToLower(email)})} })

\* a faulty variant: the maintainers of every project are returned
SQLStore_GetMaintainersByProject_all(db, projectID, F) ==
    [val |-> {db.maintainers[j].ID : j \in 1..Len(db.maintainers)}, err |-> "nil"]

\* SQLStore.GetMaintainersByProject on the database bootstrap has filled:
\* the maintainers preloaded through maintainer_projects, as the set of
\* their IDs; nil is the empty set
SQLStore_GetMaintainersByProject(db, projectID, F) ==
    IF "GetMaintainersByProject" \in F THEN [val |-> {}, err |-> "db error"]
    ELSE IF \A j \in 1..Len(db.projects) : db.projects[j].ID # projectID
         THEN [val |-> {}, err |-> "ErrProjectNotFound"]
         ELSE [val |-> {mp[1] : mp \in {x \in db.maintainerProjects : x[2] = projectID}},
               err |-> "nil"]

\* db.Create(&row) of a ServiceUserTeams row; with foreign keys enforced a
\* row whose team is no ServiceTeam is refused
CreateLinkRow(db, link) ==
    IF db.foreignKeys /\ link.ServiceTeamID \notin db.serviceTeamIDs
    THEN [db |-> db, ID |-> 0, err |-> "FOREIGN KEY constraint failed"]
    ELSE [db |-> [db EXCEPT !.links = Append(@, [link EXCEPT !.ID = Len(db.links) + 1])],
          ID |-> Len(db.links) + 1, err |-> "nil"]

\* db.Where("service_id = ? AND service_team_id = ? AND service_user_id = ?",
\* ...).FirstOrCreate(&serviceUserTeams): the conditions of a Where given as
\* a string select the row, and are not copied into the row that is created
FirstOrCreateLink(db, serviceID, teamID, userID, dest, F) ==
    IF "FirstOrCreateLink" \in F THEN [db |-> db, ID |-> 0, err |-> "db error"]
    ELSE Only({
         IF i # 0 THEN [db |-> db, ID |-> db.links[i].ID, err |-> "nil"]
         ELSE CreateLinkRow(db, dest)
         : i \in {FirstOf({j \in 1..Len(db.links) :
                      /\ db.links[j].ServiceID = serviceID
                      /\ db.links[j].ServiceTeamID = teamID
                      /\ db.links[j].ServiceUserID = userID})} })

\* db.Save(&serviceUserTeams)
SaveLink(db, link, F) ==
    IF "SaveLink" \in F THEN [db |-> db, err |-> "db error"]
    ELSE [db |-> [db EXCEPT !.links[link.ID] = link], err |-> "nil"]

\* "Update if necessary": the row found or created gets the maintainer or the
\* collaborator when it has none
updateLink(db, id, maintainer, collaborator, F) ==
    Only({
        IF u = db.links[id] THEN [db |-> db, err |-> "nil"]
        ELSE SaveLink(db, u, F)
        : u \in { Only({
              IF collaborator # 0 /\ m.CollaboratorID = 0
              THEN [m EXCEPT !.CollaboratorID = collaborator, !.MaintainerID = 0]
              ELSE m
              : m \in { IF maintainer # 0 /\ db.links[id].MaintainerID = 0
                        THEN [db.links[id] EXCEPT !.MaintainerID = maintainer,
                                                  !.CollaboratorID = 0]
                        ELSE db.links[id] } }) } })

\* "No link exists, create new"
createNewLink(db, su, st, maintainer, collaborator, F) ==
    IF "CreateLink" \in F THEN [db |-> db, err |-> "db error"]
    ELSE Only({ [db |-> c.db, err |-> c.err]
         : c \in {CreateLinkRow(db,
                     [ID |-> 0, ServiceID |-> su.ServiceID,
                      ServiceUserID |-> su.ServiceUserID, ServiceTeamID |-> st.ID,
                      MaintainerID |-> maintainer,
                      CollaboratorID |-> IF maintainer # 0 THEN 0 ELSE collaborator])} })

\* one pass of the loop of LinkServiceUserToTeam
linkTeam(db, su, st, maintainer, collaborator, F) ==
    Only({
        IF f.err = "nil" THEN updateLink(f.db, f.ID, maintainer, collaborator, F)
        ELSE createNewLink(f.db, su, st, maintainer, collaborator, F)
        : f \in {FirstOrCreateLink(db, su.ServiceID, st.ID, su.ServiceUserID,
                     [ID |-> 0, ServiceID |-> 1, ServiceUserID |-> su.ServiceUserID,
                      ServiceTeamID |-> 0, MaintainerID |-> 0, CollaboratorID |-> 0],
                     F)} })

\* the loop of LinkServiceUserToTeam over the teams; a nil team is skipped
RECURSIVE linkTeams(_, _, _, _, _, _, _)
linkTeams(db, su, sTeams, maintainer, collaborator, linkErrors, F) ==
    IF sTeams = <<>>
    THEN [db |-> db, err |-> IF linkErrors = 0 THEN "nil" ELSE "linking errors"]
    ELSE IF Head(sTeams).ID = 0
         THEN linkTeams(db, su, Tail(sTeams), maintainer, collaborator, linkErrors, F)
         ELSE Only({
              linkTeams(r.db, su, Tail(sTeams), maintainer, collaborator,
                        IF r.err = "nil" THEN linkErrors ELSE linkErrors + 1, F)
              : r \in {linkTeam(db, su, Head(sTeams), maintainer, collaborator, F)} })

\* LinkServiceUserToTeam; su.ServiceUserID = 0, a team with ID 0 and a
\* maintainer or collaborator 0 stand for nil
LinkServiceUserToTeam(db, su, sTeams, maintainer, collaborator, F) ==
    IF su.ServiceUserID = 0 THEN [db |-> db, err |-> "service user is nil"]
    ELSE IF Len(sTeams) = 0 THEN [db |-> db, err |-> "no service teams provided"]
    ELSE IF maintainer # 0 /\ collaborator # 0
         THEN [db |-> db, err |-> "cannot link both a maintainer and a collaborator"]
    ELSE linkTeams(db, su, sTeams, maintainer, collaborator, 0, F)

(***************************************************************************)
(* Bootstrap: the data of the model and the state machine.                 *)
(***************************************************************************)
Email_Alice == <<"A", "@", "x">>
Email_eve == <<Str_Eacute, "@", "x">>

SheetRow(project, parent, company, email, github, githubEmail) ==
    [Project |-> project, Parent |-> parent, Company |-> company, Email |-> email,
     GitHub |-> github, GitHubEmail |-> githubEmail]

\* rows of the "Active" sheet: two maintainers of alpha at companies whose
\* names differ in case, a row that carries a sub-project only, a row
\* without a project, a maintainer registered under an address with a
\* letter that is not ASCII
SheetRows ==
    { SheetRow("alpha", "", "Acme", Email_alice, <<"A">>, <<>>),
      SheetRow("alpha", "", "acme", Email_bob, <<>>, Email_Alice),
      SheetRow("beta", "alpha", "", <<>>, <<>>, <<>>),
      SheetRow("", "", "Acme", Email_bob, <<"b">>, <<>>),
      SheetRow("beta", "", "Acme", Email_eve, <<"e">>, <<>>) }

Sheets == UNION {[1..n -> SheetRows] : n \in 1..MaxRows}

\* the FOSSA users of the model: address and GitHub name ("" when unset)
FossaEmails == {Email_alice, Email_Alice, Email_bob, Email_eve, Email_other}
FossaGitHubNames == {<<>>, <<"a">>, <<"A">>, <<"b">>}

\* ServiceUser rows; the second stands for a nil pointer
ServiceUsers == {[ServiceID |-> 1, ServiceUserID |-> 7], [ServiceID |-> 0, ServiceUserID |-> 0]}
\* ServiceTeam rows by primary key; the row with ID 0 stands for a nil pointer
TeamLists == {<<>>, <<[ID |-> 1]>>, <<[ID |-> 2]>>, <<[ID |-> 1], [ID |-> 2]>>,
              <<[ID |-> 0], [ID |-> 1]>>}

BootDB(fk) ==
    [projects |-> <<>>, companies |-> <<>>, maintainers |-> <<>>,
     maintainerProjects |-> {}, links |-> <<>>,
     serviceTeamIDs |-> {1, 2}, foreignKeys |-> fk]

NoBoot == [op |-> "idle", args |-> <<>>, faults |-> {}, result |-> 0, err |-> "nil"]

\* the database file is new; SQLite enforces foreign keys only when the
\* connection asks for it
BootInit ==
    /\ bootDB \in {BootDB(FALSE), BootDB(TRUE)}
    /\ lastBoot = NoBoot

BootAtRest ==
    /\ bootDB = BootDB(FALSE)
    /\ lastBoot = NoBoot

\* bootstrap imports a sheet; what is kept of the call is the project and
\* the company of the first row and the sizes of the two tables before it
ImportSheet ==
    /\ \E rows \in Sheets, F \in BootFaultSets(ImportFaultPoints) :
        /\ bootDB' = loadMaintainersAndProjects(bootDB, rows, F)
        /\ lastBoot' = [op |-> "loadMaintainersAndProjects",
                        args |-> <<rows[1].Project, rows[1].Company>>, faults |-> F,
                        result |-> <<Len(bootDB.projects), Len(bootDB.companies)>>,
                        err |-> "nil"]
    /\ UNCHANGED <<onboardVars, kcpVars, syncVars, clientVars, deliveries>>

\* loadFOSSA maps a FOSSA user to a maintainer
MapUser ==
    /\ \E email \in FossaEmails, github \in FossaGitHubNames,
          F \in BootFaultSets(MapFaultPoints) :
        lastBoot' = [op |-> "MapFossaUserToMaintainer", args |-> <<email, github>>,
                     faults |-> F,
                     result |-> MapFossaUserToMaintainer(bootDB, email, github, F),
                     err |-> "nil"]
    /\ UNCHANGED <<bootDB, onboardVars, kcpVars, syncVars, clientVars, deliveries>>

\* the server asks the store for the maintainers of a project
GetMaintainers ==
    /\ \E projectID \in 0..(Len(bootDB.projects) + 1),
          F \in BootFaultSets({"GetMaintainersByProject"}) :
        LET r == SQLStore_GetMaintainersByProject(bootDB, projectID, F) IN
        lastBoot' = [op |-> "GetMaintainersByProject", args |-> <<projectID>>,
                     faults |-> F, result |-> r.val, err |-> r.err]
    /\ UNCHANGED <<bootDB, onboardVars, kcpVars, syncVars, clientVars, deliveries>>

\* loadFOSSA links a service user to its teams
LinkUser ==
    /\ \E su \in ServiceUsers, sTeams \in TeamLists, maintainer \in {0, 1},
          collaborator \in {0, 1}, F \in BootFaultSets(LinkFaultPoints) :
        /\ Len(bootDB.links) + Len(sTeams) <= MaxLinks
        /\ LET r == LinkServiceUserToTeam(bootDB, su, sTeams, maintainer, collaborator, F)
           IN /\ bootDB' = r.db
              /\ lastBoot' = [op |-> "LinkServiceUserToTeam",
                              args |-> <<su, sTeams, maintainer, collaborator>>,
                              faults |-> F, result |-> 0, err |-> r.err]
    /\ UNCHANGED <<onboardVars, kcpVars, syncVars, clientVars, deliveries>>

(***************************************************************************)
(* CreateTeam on its own: the two implementations of FossaClient.          *)
(***************************************************************************)
TeamNames == {"alpha", "beta", "gamma"}

NoCreateTeam(impl) ==
    [op |-> "idle", impl |-> impl, name |-> "", faults |-> {}, team |-> NoTeam,
     err |-> "nil"]

\* the server runs with the client of plugins/fossa, its tests with the mock
CreateTeamInit == lastCreateTeam \in {NoCreateTeam("Client"), NoCreateTeam("MockFossaClient")}

CreateTeamAtRest == lastCreateTeam = NoCreateTeam("Client")

\* Client.CreateTeam is called
ClientCreateTeam ==
    /\ lastCreateTeam.impl = "Client"
    /\ \E name \in TeamNames, F \in BootFaultSets({"CreateTeam"}) :
        LET r == CreateTeam(World, name, F) IN
        /\ fossaTeams' = r.w.teams
        /\ fossaTeamMembers' = r.w.members
        /\ lastCreateTeam' = [op |-> "CreateTeam", impl |-> "Client", name |-> name,
                              faults |-> F, team |-> r.team, err |-> r.err]
    /\ UNCHANGED <<fossaInvitations, fossaUsers, dbServiceTeams, dbAuditLog, last,
                   kcpVars, syncVars, bootVars, lastPending, lastWait, lastSanitize, deliveries>>

\* MockFossaClient.CreateTeam is called
MockCreateTeam ==
    /\ lastCreateTeam.impl = "MockFossaClient"
    /\ \E name \in TeamNames :
        LET r == MockFossaClient_CreateTeam(World, name) IN
        /\ fossaTeams' = r.w.teams
        /\ fossaTeamMembers' = r.w.members
        /\ lastCreateTeam' = [op |-> "CreateTeam", impl |-> "MockFossaClient",
                              name |-> name, faults |-> {}, team |-> r.team,
                              err |-> r.err]
    /\ UNCHANGED <<fossaInvitations, fossaUsers, dbServiceTeams, dbAuditLog, last,
                   kcpVars, syncVars, bootVars, lastPending, lastWait, lastSanitize, deliveries>>

(***************************************************************************)
(* HasPendingInvitation on its own: the two implementations of             *)
(* FossaClient, against the invitations FOSSA holds.                       *)
(***************************************************************************)
\* MockFossaClient.HasPendingInvitation: a lookup in the map of invitations
MockFossaClient_HasPendingInvitation(w, email) ==
    [w |-> w, pending |-> email \in w.invitations, err |-> "nil"]

\* the addresses invitations are sent to and asked for
InvitationEmails == {Email_alice, Email_Alice, Email_bob, Email_other}

NoPending(impl) ==
    [op |-> "idle", impl |-> impl, email |-> <<>>, faults |-> {}, pending |-> FALSE,
     err |-> "nil"]

PendingAtRest == lastPending = NoPending("Client")

\* FOSSA holds the invitations that were sent and have neither been accepted
\* nor expired: none at first
PendingInit ==
    /\ fossaTeams = {}
    /\ fossaInvitations = {}
    /\ fossaUsers = {}
    /\ fossaTeamMembers = <<>>
    /\ dbServiceTeams = <<>>
    /\ dbAuditLog = <<>>
    /\ last = Idle
    /\ lastPending \in {NoPending("Client"), NoPending("MockFossaClient")}

\* an administrator of the organisation invites somebody
InvitationSent ==
    /\ lastPending.op = "idle"
    /\ \E email \in InvitationEmails \ fossaInvitations :
          fossaInvitations' = fossaInvitations \cup {email}
    /\ UNCHANGED <<fossaTeams, fossaUsers, fossaTeamMembers, dbServiceTeams, dbAuditLog,
                   last, kcpVars, syncVars, bootVars, clientVars, deliveries>>

\* an invitation expires
InvitationExpires ==
    /\ lastPending.op = "idle"
    /\ \E email \in fossaInvitations : fossaInvitations' = fossaInvitations \ {email}
    /\ UNCHANGED <<fossaTeams, fossaUsers, fossaTeamMembers, dbServiceTeams, dbAuditLog,
                   last, kcpVars, syncVars, bootVars, clientVars, deliveries>>

\* Client.HasPendingInvitation is called
ClientHasPendingInvitation ==
    /\ lastPending.op = "idle" /\ lastPending.impl = "Client"
    /\ \E email \in InvitationEmails, F \in BootFaultSets({"HasPendingInvitation"}) :
        \E r \in {HasPendingInvitation(World, email, F)} :
           lastPending' = [op |-> "HasPendingInvitation", impl |-> "Client",
                           email |-> email, faults |-> F, pending |-> r.pending,
                           err |-> r.err]
    /\ UNCHANGED <<onboardVars, kcpVars, syncVars, bootVars, lastCreateTeam, lastWait, lastSanitize, deliveries>>

\* MockFossaClient.HasPendingInvitation is called
MockHasPendingInvitation ==
    /\ lastPending.op = "idle" /\ lastPending.impl = "MockFossaClient"
    /\ \E email \in InvitationEmails :
        \E r \in {MockFossaClient_HasPendingInvitation(World, email)} :
           lastPending' = [op |-> "HasPendingInvitation", impl |-> "MockFossaClient",
                           email |-> email, faults |-> {}, pending |-> r.pending,
                           err |-> r.err]
    /\ UNCHANGED <<onboardVars, kcpVars, syncVars, bootVars, lastCreateTeam, lastWait, lastSanitize, deliveries>>

\* the caller has the answer
HasPendingInvitationReturned ==
    /\ lastPending.op = "HasPendingInvitation"
    /\ lastPending' = NoPending(lastPending.impl)
    /\ UNCHANGED <<onboardVars, kcpVars, syncVars, bootVars, lastCreateTeam, lastWait, lastSanitize, deliveries>>

(***************************************************************************)
(* Two webhook deliveries served at the same time.  net/http serves each   *)
(* request in a goroutine of its own and the handler takes no lock, so the *)
(* calls of two runs of signProjectUpForFOSSA interleave.  One step is one *)
(* request to the database or to FOSSA; FirstOrCreate is a SELECT followed *)
(* by an INSERT.  No service fails here.                                   *)
(***************************************************************************)
MaxDeliveries == 2

Delivery(projectName) ==
    [project |-> projectName, pc |-> "GetProjectServiceTeamMap", hasRow |-> FALSE,
     team |-> NoTeam]

DeliveriesInit ==
    deliveries \in [1..MaxDeliveries -> {Delivery(n) : n \in DOMAIN Projects}]

DeliveriesAtRest == deliveries = [g \in 1..MaxDeliveries |-> Delivery("alpha")]

\* st, ok := serviceTeams[project.ID]
DeliveryGetsMap ==
    \E g \in DOMAIN deliveries :
        /\ deliveries[g].pc = "GetProjectServiceTeamMap"
        /\ \E m \in {GetProjectServiceTeamMap(World, Str_FOSSA, {})} :
              deliveries' = [deliveries EXCEPT
                  ![g].pc = IF Projects[deliveries[g].project].ID \in DOMAIN m.val
                            THEN "SendUserInvitation" ELSE "CreateTeam"]
        /\ UNCHANGED <<onboardVars, kcpVars, syncVars, bootVars, clientVars>>

\* team, err := s.FossaClient.CreateTeam(project.Name)
DeliveryCreatesTeam ==
    \E g \in DOMAIN deliveries :
        /\ deliveries[g].pc = "CreateTeam"
        /\ \E ct \in {CreateTeam(World, deliveries[g].project, {})} :
              /\ fossaTeams' = ct.w.teams
              /\ fossaTeamMembers' = ct.w.members
              /\ deliveries' = [deliveries EXCEPT ![g].pc = "FirstOrCreate: SELECT",
                                                  ![g].team = ct.team]
        /\ UNCHANGED <<fossaInvitations, fossaUsers, dbServiceTeams, dbAuditLog, last,
                       kcpVars, syncVars, bootVars, clientVars>>

\* CreateServiceTeam: Where("service_team_id = ?", serviceID), the query of
\* FirstOrCreate
DeliverySelectsRow ==
    \E g \in DOMAIN deliveries :
        /\ deliveries[g].pc = "FirstOrCreate: SELECT"
        /\ deliveries' = [deliveries EXCEPT
               ![g].hasRow = \E i \in 1..Len(dbServiceTeams) :
                                dbServiceTeams[i].ServiceTeamID = deliveries[g].team.ID,
               ![g].pc = IF \E i \in 1..Len(dbServiceTeams) :
                               dbServiceTeams[i].ServiceTeamID = deliveries[g].team.ID
                         THEN "SendUserInvitation" ELSE "FirstOrCreate: INSERT"]
        /\ UNCHANGED <<onboardVars, kcpVars, syncVars, bootVars, clientVars>>

\* CreateServiceTeam: the row FirstOrCreate inserts when its query found none
DeliveryInsertsRow ==
    \E g \in DOMAIN deliveries :
        /\ deliveries[g].pc = "FirstOrCreate: INSERT"
        /\ dbServiceTeams' = Append(dbServiceTeams,
               [ServiceTeamID |-> deliveries[g].team.ID, ServiceID |-> 1,
                ServiceTeamName |-> deliveries[g].team.Name,
                ProjectID |-> Projects[deliveries[g].project].ID,
                ProjectName |-> deliveries[g].project])
        /\ deliveries' = [deliveries EXCEPT ![g].pc = "SendUserInvitation"]
        /\ UNCHANGED <<fossaTeams, fossaInvitations, fossaUsers, fossaTeamMembers,
                       dbAuditLog, last, kcpVars, syncVars, bootVars, clientVars>>

\* the rest of signProjectUpForFOSSA, which creates neither a team nor a row:
\* the invitations to the maintainers of the project
DeliveryInvites ==
    \E g \in DOMAIN deliveries :
        /\ deliveries[g].pc = "SendUserInvitation"
        /\ \E gm \in {GetMaintainersByProject(Projects[deliveries[g].project].ID, {})} :
              fossaInvitations' = sendInvitations(World, gm.val, <<>>, <<>>, {}).w.invitations
        /\ deliveries' = [deliveries EXCEPT ![g].pc = "done"]
        /\ UNCHANGED <<fossaTeams, fossaUsers, fossaTeamMembers, dbServiceTeams,
                       dbAuditLog, last, kcpVars, syncVars, bootVars, clientVars>>

(***************************************************************************)
(* The specifications: the onboarding server, the operator and the sync    *)
(* job are separate programs; each is checked with the other two at rest.  *)
(***************************************************************************)
OnboardAtRest ==
    /\ fossaTeams = {}
    /\ fossaInvitations = {}
    /\ fossaUsers = {}
    /\ fossaTeamMembers = <<>>
    /\ dbServiceTeams = <<>>
    /\ dbAuditLog = <<>>
    /\ last = Idle

SyncAtRest ==
    /\ syncDB = DB(<<>>, <<>>, <<>>, <<>>)
    /\ cluster = <<>>
    /\ lastSync = NoSync

Init == OnboardInit /\ KcpInit /\ SyncAtRest /\ BootAtRest /\ CreateTeamAtRest /\ PendingAtRest /\ WaitAtRest /\ SanitizeAtRest /\ DeliveriesAtRest

Next ==
    \/ HandleWebhook
    \/ HandleLabelCommand
    \/ AcceptInvitation
    \/ Respond

Spec == Init /\ [][Next]_vars

InitKcp == OnboardAtRest /\ KcpInit /\ SyncAtRest /\ BootAtRest /\ CreateTeamAtRest /\ PendingAtRest /\ WaitAtRest /\ SanitizeAtRest /\ DeliveriesAtRest

NextKcp ==
    \/ CreateProject
    \/ DeleteProject
    \/ WorkspaceProgress
    \/ ReconcileProject
    \/ ReconcileReturned

SpecKcp == InitKcp /\ [][NextKcp]_vars

\* the controller as it is scheduled, for Projects that stay: every
\* Reconcile is run for a request taken from the queue
NextKcpFair ==
    \/ CreateProject
    \/ WorkspaceProgress
    \/ Dequeue
    \/ ReconcileDequeued
    \/ ReconcileReturned

\* the work queue of the controller hands out every request it holds, the
\* worker runs Reconcile for the request it took, and Reconcile returns
FairnessKcp ==
    /\ \A key \in ProjectKeys : SF_vars(DequeueRequest(key))
    /\ WF_vars(ReconcileDequeued)
    /\ WF_vars(ReconcileReturned)

SpecKcpFair == InitKcp /\ [][NextKcpFair]_vars /\ FairnessKcp

\* the controller with several Projects at a time: the Projects were applied
\* before the manager started, and its first list queues a request for each
SideBySide == 2

SeveralProjectsInit ==
    /\ \E S \in SUBSET ProjectKeys :
          /\ Cardinality(S) = SideBySide
          /\ k8sProjects = [key \in S |-> NewProject]
          /\ workqueue = S
    /\ kcpWorkspaces = <<>>
    /\ lastReconcile = NoReconcile

InitSeveralProjects ==
    OnboardAtRest /\ SeveralProjectsInit /\ SyncAtRest /\ BootAtRest /\ CreateTeamAtRest /\ PendingAtRest /\ WaitAtRest /\ SanitizeAtRest /\ DeliveriesAtRest

NextSeveralProjects ==
    \/ WorkspaceProgress
    \/ Dequeue
    \/ ReconcileDequeued
    \/ ReconcileReturned

SpecSeveralProjects == InitSeveralProjects /\ [][NextSeveralProjects]_vars

InitSync == OnboardAtRest /\ KcpInit /\ SyncInit /\ BootAtRest /\ CreateTeamAtRest /\ PendingAtRest /\ WaitAtRest /\ SanitizeAtRest /\ DeliveriesAtRest

NextSync ==
    \/ ChangeDB
    \/ SyncAll
    \/ SyncAllAgain
    \/ SyncExited

SpecSync == InitSync /\ [][NextSync]_vars

InitBoot == OnboardAtRest /\ KcpInit /\ SyncAtRest /\ BootInit /\ CreateTeamAtRest /\ PendingAtRest /\ WaitAtRest /\ SanitizeAtRest /\ DeliveriesAtRest

NextBoot ==
    \/ ImportSheet
    \/ MapUser
    \/ GetMaintainers

SpecBoot == InitBoot /\ [][NextBoot]_vars

\* LinkServiceUserToTeam reads and writes the table of links only
NextLink == LinkUser

SpecLink == InitBoot /\ [][NextLink]_vars

InitCreateTeam == OnboardAtRest /\ KcpInit /\ SyncAtRest /\ BootAtRest /\ CreateTeamInit /\ PendingAtRest /\ WaitAtRest /\ SanitizeAtRest /\ DeliveriesAtRest

NextCreateTeam ==
    \/ ClientCreateTeam
    \/ MockCreateTeam

SpecCreateTeam == InitCreateTeam /\ [][NextCreateTeam]_vars

InitWait ==
    OnboardAtRest /\ WaitInit /\ SyncAtRest /\ BootAtRest /\ CreateTeamAtRest /\ PendingAtRest
        /\ SanitizeAtRest /\ DeliveriesAtRest

NextWait ==
    \/ WaitCalled
    \/ Poll
    \/ WaitReturned
    \/ WorkspaceProgress
    \/ WorkspaceDeleted

SpecWait == InitWait /\ [][NextWait]_vars

\* the poll is driven by its timer and its context: a condition that can run
\* does run
SpecWaitFair == SpecWait /\ WF_vars(Poll)

InitSanitize ==
    OnboardAtRest /\ KcpInit /\ SyncAtRest /\ BootAtRest /\ CreateTeamAtRest /\ PendingAtRest
        /\ WaitAtRest /\ SanitizeInit /\ DeliveriesAtRest

NextSanitize == SanitizeName

SpecSanitize == InitSanitize /\ [][NextSanitize]_vars

InitPending ==
    PendingInit /\ KcpInit /\ SyncAtRest /\ BootAtRest /\ CreateTeamAtRest /\ WaitAtRest /\ SanitizeAtRest
        /\ DeliveriesAtRest

NextPending ==
    \/ InvitationSent
    \/ InvitationExpires
    \/ ClientHasPendingInvitation
    \/ MockHasPendingInvitation
    \/ HasPendingInvitationReturned

SpecPending == InitPending /\ [][NextPending]_vars

InitConcurrent == OnboardInit /\ KcpInit /\ SyncAtRest /\ BootAtRest /\ CreateTeamAtRest
                  /\ PendingAtRest /\ WaitAtRest /\ SanitizeAtRest /\ DeliveriesInit

NextConcurrent ==
    \/ DeliveryGetsMap
    \/ DeliveryCreatesTeam
    \/ DeliverySelectsRow
    \/ DeliveryInsertsRow
    \/ DeliveryInvites

SpecConcurrent == InitConcurrent /\ [][NextConcurrent]_vars

(***************************************************************************)
(* Properties of the onboarding server.                                    *)
(***************************************************************************)
\* the calls the last handler made to one system
CallsTo(l, sys) == {i \in 1..Len(l.calls) : l.calls[i].sys = sys}
\* the calls the last handler made to one operation
CallsOf(l, api) == {i \in 1..Len(l.calls) : l.calls[i].api = api}

\* the request is an event GitHub has signed and the server can parse
IsEvent(req) == req.signedWith = Secret /\ req.parses

IsAcceptComment(req) ==
    /\ IsEvent(req)
    /\ req.type = "issue_comment" /\ req.action = "created" /\ req.body = Cmd_accepted

\* the title names a project of the database
NamesProject(req) ==
    req.title.prefixed /\ \E p \in DBProjects : p.Name = req.title.name

\* the actor is a registered maintainer of the project the title names
ByMaintainer(req) ==
    /\ req.title.prefixed
    /\ \E p \in DBProjects :
          /\ p.Name = req.title.name
          /\ \E i \in 1..Len(p.Maintainers) : p.Maintainers[i].GitHubAccount = req.actor

ByAssignee(req) ==
    \/ \E i \in 1..Len(req.assignees) : req.assignees[i] = req.actor
    \/ req.assignee = req.actor

\* C1: a request whose signature does not validate against the configured
\* secret is answered 401; the handler makes no FOSSA call, writes nothing to
\* the database, posts no comment and adds no label, and FOSSA and the
\* database are as before.
C1_InvalidSignatureRejected ==
    [][ (last'.op = "handleWebhook" /\ last'.req.signedWith # Secret)
            => /\ last'.status = StatusUnauthorized
               /\ last'.calls = <<>>
               /\ last'.comments = <<>>
               /\ last'.labels = <<>>
               /\ UNCHANGED <<fossaTeams, fossaInvitations, fossaUsers,
                              fossaTeamMembers, dbServiceTeams, dbAuditLog>> ]_vars

\* a forged "labeled" event has been rejected while a team was onboarded
C1_Witness ==
    /\ last.op = "handleWebhook"
    /\ last.req.signedWith # Secret
    /\ last.req.type = "issues"
    /\ last.status = StatusUnauthorized
    /\ dbServiceTeams # <<>>

C5_LabelOnlyByMaintainer ==
    last.op = "handleLabelCommand"
        => /\ Len(last.labels) <= 1
           /\ \A i \in 1..Len(last.labels) :
                 /\ NamesProject(last.req)
                 /\ ByMaintainer(last.req)
                 /\ last.labels[i].label \in {Str_fossa, Str_snyk}
                 /\ Len(Fields(last.req.body)) = 2
                 /\ last.labels[i].label = ToLower(Fields(last.req.body)[2])
                 /\ last.labels[i].number = last.req.number

\* "/label FOSSA" of a maintainer has added the label "fossa"
C5_Witness ==
    /\ last.op = "handleLabelCommand"
    /\ Len(Fields(last.req.body)) = 2
    /\ Fields(last.req.body)[2] = Str_FOSSA
    /\ \E i \in 1..Len(last.labels) : last.labels[i].label = Str_fossa

IsFossaLabeled(req) ==
    /\ IsEvent(req)
    /\ req.type = "issues" /\ req.action = "labeled"
    /\ \E i \in 1..Len(req.labels) : req.labels[i] = Str_fossa

\* the project of the database the title names
ProjectOf(req) == CHOOSE p \in DBProjects : p.Name = req.title.name

\* the ServiceTeam rows of a project
RowsOf(rows, pid) == {i \in 1..Len(rows) : rows[i].ProjectID = pid}

IsMember(members, teamID, email) ==
    teamID \in DOMAIN members /\ \E i \in 1..Len(members[teamID]) : members[teamID][i] = email

\* the comments of one kind the last handler sent to GitHub
CommentCalls(l, kind) ==
    {i \in CallsOf(l, "CreateComment") : l.calls[i].arg.body.kind = kind}

\* a line of a comment: the message, and whom or what it is about
HasLine(body, msg, who) ==
    \E i \in 1..Len(body.actions) : body.actions[i].msg = msg /\ body.actions[i].who = who

\* C6: when the 'fossa' label is processed for a project that has no
\* ServiceTeam row and CreateTeam fails, the sign-up does not panic and
\* returns an error: the request is answered and the report carries the error.
C6_CreateTeamFailureIsAnError ==
    [][ (/\ last'.op = "handleWebhook"
         /\ IsFossaLabeled(last'.req)
         /\ NamesProject(last'.req)
         /\ RowsOf(dbServiceTeams, ProjectOf(last'.req).ID) = {}
         /\ \E i \in CallsOf(last', "CreateTeam") : ~last'.calls[i].ok)
            => /\ last'.status = StatusOK
               /\ \E i \in CommentCalls(last', "FOSSA onboarding - Report") :
                     last'.calls[i].arg.body.err # "nil" ]_vars

\* C7: processing "/fossa-invite accepted" never calls AddUserToTeamByEmail
\* for a maintainer whose invitation is pending; the summary, when one is
\* sent, reports the maintainer as "invitation still pending; skipped", and
\* the maintainer is in no team afterwards.
C7_PendingMaintainerNotAdded ==
    [][ (last'.op = "handleWebhook" /\ IsAcceptComment(last'.req)
         /\ NamesProject(last'.req))
            => \A i \in 1..Len(ProjectOf(last'.req).Maintainers) :
                  LET m == ProjectOf(last'.req).Maintainers[i] IN
                  m.Email \in fossaInvitations
                    => /\ \A c \in CallsOf(last', "AddUserToTeamByEmail") :
                             last'.calls[c].arg # m.Email
                       /\ \A c \in CommentCalls(last', "CNCF FOSSA Team Membership Update") :
                             HasLine(last'.calls[c].arg.body,
                                     "invitation still pending; skipped", m.GitHubAccount)
                       /\ \A t \in DOMAIN fossaTeamMembers' :
                             ~IsMember(fossaTeamMembers', t, m.Email) ]_vars

\* C8: once the project has its team and its ServiceTeam row, a maintainer
\* who is a FOSSA user with no invitation pending and not yet in the team is,
\* after an authorized "/fossa-invite accepted" that no service failed, a
\* member of the team, and the summary reports the maintainer as added.
C8_AcceptedMaintainerIsAdded ==
    [][ (/\ last'.op = "handleWebhook" /\ last'.faults = {}
         /\ IsAcceptComment(last'.req)
         /\ NamesProject(last'.req)
         /\ (ByMaintainer(last'.req) \/ ByAssignee(last'.req))
         /\ RowsOf(dbServiceTeams, ProjectOf(last'.req).ID) # {})
            => \A i \in 1..Len(ProjectOf(last'.req).Maintainers),
                  r \in RowsOf(dbServiceTeams, ProjectOf(last'.req).ID) :
                  LET m == ProjectOf(last'.req).Maintainers[i]
                      team == dbServiceTeams[r].ServiceTeamID
                  IN (/\ m.Email \in fossaUsers
                      /\ m.Email \notin fossaInvitations
                      /\ team \in DOMAIN fossaTeamMembers
                      /\ ~IsMember(fossaTeamMembers, team, m.Email))
                       => /\ IsMember(fossaTeamMembers', team, m.Email)
                          /\ \E c \in CommentCalls(last', "CNCF FOSSA Team Membership Update") :
                                HasLine(last'.calls[c].arg.body,
                                        "added to FOSSA team as Team Admin",
                                        m.GitHubAccount) ]_vars

\* C9: a 'fossa' label event for a project that has a ServiceTeam row does
\* not call CreateTeam and reports the team as "was already in FOSSA"; no
\* two FOSSA teams have the name of one project.
C9_NoSecondTeam ==
    [][ (/\ last'.op = "handleWebhook"
         /\ IsFossaLabeled(last'.req)
         /\ NamesProject(last'.req)
         /\ RowsOf(dbServiceTeams, ProjectOf(last'.req).ID) # {})
            => /\ CallsOf(last', "CreateTeam") = {}
               /\ \A c \in CommentCalls(last', "FOSSA onboarding - Report") :
                     \E i \in 1..Len(last'.calls[c].arg.body.actions) :
                        last'.calls[c].arg.body.actions[i].msg = "was already in FOSSA"
               /\ \A t1, t2 \in fossaTeams' : t1.Name = t2.Name => t1 = t2 ]_vars

\* C10: when the 'fossa' label is processed and no service fails, a
\* registered maintainer of the project who is a FOSSA user already is a
\* member of the project's team afterwards, and the report lists the
\* maintainer under "CNCF FOSSA Users added to the team as Team Admins".
C10_ExistingUserAddedAsTeamAdmin ==
    [][ (/\ last'.op = "handleWebhook" /\ last'.faults = {}
         /\ IsFossaLabeled(last'.req)
         /\ NamesProject(last'.req))
            => \A i \in 1..Len(ProjectOf(last'.req).Maintainers) :
                  LET m == ProjectOf(last'.req).Maintainers[i] IN
                  m.Email \in fossaUsers
                    => /\ \E r \in RowsOf(dbServiceTeams', ProjectOf(last'.req).ID) :
                             IsMember(fossaTeamMembers',
                                      dbServiceTeams'[r].ServiceTeamID, m.Email)
                       /\ \E c \in CommentCalls(last', "FOSSA onboarding - Report") :
                             HasLine(last'.calls[c].arg.body,
                                     "CNCF FOSSA Users added to the team as Team Admins",
                                     m.GitHubAccount) ]_vars

\* the id of the FOSSA team the ServiceTeam map gives for a project: the
\* last row of the project, 0 when it has none
TeamIDOf(rows, pid) ==
    IF RowsOf(rows, pid) = {} THEN 0
    ELSE rows[CHOOSE i \in RowsOf(rows, pid) :
                 \A j \in RowsOf(rows, pid) : j <= i].ServiceTeamID

\* an authorized "/fossa-invite accepted" for a registered project whose
\* ServiceTeam row is missing or has the team id 0
IsAcceptWithoutTeam(req) ==
    /\ IsAcceptComment(req)
    /\ NamesProject(req)
    /\ (ByMaintainer(req) \/ ByAssignee(req))
    /\ TeamIDOf(dbServiceTeams, ProjectOf(req).ID) = 0

\* the handler has sent the "team was not found" comment to the issue
SaysTeamNotFound(l) ==
    \E c \in CommentCalls(l, "FOSSA team was not found") :
        /\ l.calls[c].arg.number = l.req.number
        /\ l.calls[c].arg.owner = l.req.owner
        /\ l.calls[c].arg.repo = l.req.repo
        /\ l.calls[c].arg.body.project = l.req.title.name

FossaChosenCount(req) ==
    Cardinality({i \in 1..Len(req.labels) : req.labels[i] = Str_fossa})

\* C12: every invocation of fossaChosen sends exactly one comment, and sends
\* it to the issue of the event (same owner, repository and number),
\* whether the sign-up succeeded or reported problems.
C12_OneReportPerFossaChosen ==
    [][ (last'.op = "handleWebhook" /\ IsFossaLabeled(last'.req))
            => /\ Cardinality(CallsOf(last', "CreateComment"))
                     = FossaChosenCount(last'.req)
               /\ \A c \in CallsOf(last', "CreateComment") :
                     /\ last'.calls[c].arg.body.kind = "FOSSA onboarding - Report"
                     /\ last'.calls[c].arg.owner = last'.req.owner
                     /\ last'.calls[c].arg.repo = last'.req.repo
                     /\ last'.calls[c].arg.number = last'.req.number ]_vars

\* the error texts of the FOSSA client that print the address of the call
ErrorsNamingEmail == {"SendUserInvitation failed", "user not found by email"}

\* the GitHub handles of the registered maintainers
Handles ==
    UNION {{p.Maintainers[i].GitHubAccount : i \in 1..Len(p.Maintainers)} : p \in DBProjects}

\* a line of a comment is about nobody or about a GitHub handle; the line
\* of the invitations sent lists handles
MentionsHandlesOnly(a) ==
    IF a.msg = "Invitation(s) sent to"
    THEN \A j \in 1..Len(a.who) : a.who[j] \in Handles
    ELSE a.who \in Handles \cup {""}

\* C13: no comment the onboarding flows send contains a maintainer's
\* registered email: every line of a comment is about nobody or about a
\* GitHub handle, and no error text printed into a comment is one that
\* carries the address of a FOSSA call.
C13_NoEmailInComments ==
    last.op = "handleWebhook"
        => \A c \in CallsOf(last, "CreateComment") :
              /\ last.calls[c].arg.body.err \notin ErrorsNamingEmail
              /\ \A i \in 1..Len(last.calls[c].arg.body.actions) :
                    MentionsHandlesOnly(last.calls[c].arg.body.actions[i])

\* a comment names alice by her handle after FOSSA was called with her
\* address and answered with an error that prints it
C13_Witness ==
    /\ last.op = "handleWebhook"
    /\ \E c \in CallsOf(last, "CreateComment") :
          \E i \in 1..Len(last.calls[c].arg.body.actions) :
              /\ last.calls[c].arg.body.actions[i].msg = "error adding to team"
              /\ last.calls[c].arg.body.actions[i].who = Alice.GitHubAccount
    /\ \E i \in CallsOf(last, "AddUserToTeamByEmail") :
          last.calls[i].arg = Alice.Email /\ ~last.calls[i].ok

\* C19: CreateTeam is idempotent in the name of the team: called with the
\* name of a team FOSSA has, it returns that team with its id and no error,
\* and FOSSA has the teams it had.
C19_CreateTeamIsIdempotent ==
    [][ (/\ lastCreateTeam'.op = "CreateTeam"
         /\ \E t \in fossaTeams : t.Name = lastCreateTeam'.name)
            => /\ lastCreateTeam'.err = "nil"
               /\ lastCreateTeam'.team \in fossaTeams
               /\ lastCreateTeam'.team.Name = lastCreateTeam'.name
               /\ fossaTeams' = fossaTeams ]_vars

\* C21: when the title of a labeled issue cannot be parsed or names no
\* registered project, processing the 'fossa' label creates no FOSSA team
\* and sends no invitation.
C21_UnknownProjectNotOnboarded ==
    [][ (/\ last'.op = "handleWebhook"
         /\ IsFossaLabeled(last'.req)
         /\ ~NamesProject(last'.req))
            => /\ CallsOf(last', "CreateTeam") = {}
               /\ CallsOf(last', "SendUserInvitation") = {}
               /\ fossaTeams' = fossaTeams
               /\ fossaInvitations' = fossaInvitations ]_vars

\* the 'fossa' label was processed for an issue whose title names a project
\* that is not registered, and the report was sent
C21_Witness ==
    /\ last.op = "handleWebhook"
    /\ IsFossaLabeled(last.req)
    /\ last.req.title = Title("ghost")
    /\ CommentCalls(last, "FOSSA onboarding - Report") # {}
    /\ CallsOf(last, "CreateTeam") = {}

NoDuplicateMembers(members) ==
    \A t \in DOMAIN members :
        \A i, j \in 1..Len(members[t]) : members[t][i] = members[t][j] => i = j

\* C23: however often "/fossa-invite accepted" is processed for a project, a
\* maintainer who is already in the project's team is not added again, no
\* team ever lists the same email twice, and the summary of a run in which
\* no service failed reports the maintainer as "already a member; no action".
C23_AddedAtMostOnce ==
    [][ /\ NoDuplicateMembers(fossaTeamMembers')
        /\ (last'.op = "handleWebhook" /\ IsAcceptComment(last'.req)
            /\ NamesProject(last'.req))
            => \A i \in 1..Len(ProjectOf(last'.req).Maintainers),
                  r \in RowsOf(dbServiceTeams, ProjectOf(last'.req).ID) :
                  LET m == ProjectOf(last'.req).Maintainers[i]
                      team == dbServiceTeams[r].ServiceTeamID
                  IN IsMember(fossaTeamMembers, team, m.Email)
                       => /\ \A c \in CallsOf(last', "AddUserToTeamByEmail") :
                                last'.calls[c].arg = m.Email => ~last'.calls[c].ok
                          /\ last'.faults = {}
                               => \A c \in CommentCalls(last',
                                             "CNCF FOSSA Team Membership Update") :
                                     HasLine(last'.calls[c].arg.body,
                                             "already a member; no action",
                                             m.GitHubAccount)
      ]_vars

\* C24: when 'fossa' label deliveries are served concurrently, no project
\* has more than one FOSSA team of its name nor more than one ServiceTeam row.
C24_OneTeamOneRow ==
    \A p \in DBProjects :
        /\ Cardinality({t \in fossaTeams : t.Name = p.Name}) <= 1
        /\ Cardinality(RowsOf(dbServiceTeams, p.ID)) <= 1

\* C25: a 'labeled' issue event runs the FOSSA onboarding only if the label
\* the event added is 'fossa', and then at most once: an event that added
\* another label makes no call and changes nothing, and no event is answered
\* with more than one onboarding report.
C25_OnlyTheAddedLabelCounts ==
    [][ (/\ last'.op = "handleWebhook"
         /\ IsEvent(last'.req)
         /\ last'.req.type = "issues" /\ last'.req.action = "labeled")
            => /\ last'.req.label # Str_fossa
                    => /\ last'.calls = <<>>
                       /\ UNCHANGED <<fossaTeams, fossaInvitations, fossaUsers,
                                      fossaTeamMembers, dbServiceTeams, dbAuditLog>>
               /\ Cardinality(CommentCalls(last', "FOSSA onboarding - Report")) <= 1
      ]_vars

\* the FOSSA teams that carry the name of a project
TeamsNamed(teams, name) == {t \in teams : t.Name = name}

\* the ServiceTeam rows of a project
RowsOfProject(rows, projectID) == {i \in 1..Len(rows) : rows[i].ProjectID = projectID}

\* a team was created in FOSSA for the project the request names, and the
\* database has no ServiceTeam row for the project
TeamWithoutRow(req) ==
    /\ NamesProject(req)
    /\ TeamsNamed(fossaTeams, req.title.name) # {}
    /\ RowsOfProject(dbServiceTeams, Projects[req.title.name].ID) = {}

RecordingCalls == {"GetMaintainersByProject", "CreateTeam", "CreateServiceTeam"}

NewAddMemberEntries(projectID, maintainerID) ==
    {i \in (Len(dbAuditLog) + 1)..Len(dbAuditLog') :
        /\ dbAuditLog'[i].Action = "FOSSA_ADD_MEMBER"
        /\ dbAuditLog'[i].ProjectID = projectID
        /\ dbAuditLog'[i].MaintainerID = maintainerID}

\* the handler has added the maintainer to the team of the project its
\* request names
AddedToTeam(l, project, maintainer) ==
    /\ l.op = "handleWebhook"
    /\ l.req.title.name = project.Name
    /\ \E c \in CallsOf(l, "AddUserToTeamByEmail") :
          l.calls[c].arg = maintainer.Email /\ l.calls[c].ok

\* C34: the audit log gets a FOSSA_ADD_MEMBER entry for a project and a
\* maintainer exactly in the steps in which a '/fossa-invite accepted' command
\* has added that maintainer to the FOSSA team of that project; nothing else
\* writes such an entry and no entry is removed.
C34_AuditEntryExactlyWhenAdded ==
    [][ /\ SubSeq(dbAuditLog', 1, Len(dbAuditLog)) = dbAuditLog
        /\ \A project \in DBProjects :
              \A i \in 1..Len(project.Maintainers) :
                 NewAddMemberEntries(project.ID, project.Maintainers[i].ID) # {}
                    <=> AddedToTeam(last', project, project.Maintainers[i])
        /\ \A i \in (Len(dbAuditLog) + 1)..Len(dbAuditLog') :
              \E project \in DBProjects : \E j \in 1..Len(project.Maintainers) :
                 i \in NewAddMemberEntries(project.ID, project.Maintainers[j].ID) ]_vars

\* C34 (amended): no entry of the audit log is removed, and every entry a step
\* appends is a FOSSA_ADD_MEMBER entry for a project and a maintainer whom a
\* '/fossa-invite accepted' command has added to the team of that project in
\* that step. A maintainer who was added gets the entry when the write to the
\* audit log succeeds, and none when it fails.
C34_AuditEntryWhenWritten ==
    [][ /\ SubSeq(dbAuditLog', 1, Len(dbAuditLog)) = dbAuditLog
        /\ \A i \in (Len(dbAuditLog) + 1)..Len(dbAuditLog') :
              \E project \in DBProjects : \E j \in 1..Len(project.Maintainers) :
                 /\ i \in NewAddMemberEntries(project.ID, project.Maintainers[j].ID)
                 /\ AddedToTeam(last', project, project.Maintainers[j])
        /\ \A project \in DBProjects :
              \A i \in 1..Len(project.Maintainers) :
                 AddedToTeam(last', project, project.Maintainers[i])
                    => (NewAddMemberEntries(project.ID, project.Maintainers[i].ID) # {}
                           <=> "LogAuditEvent" \notin last'.faults) ]_vars

\* a '/fossa-invite accepted' command has added alice, for whom the audit log
\* has its one entry, and has not added bob, for whom it has none
C34_Witness ==
    /\ AddedToTeam(last, Projects["alpha"], Alice)
    /\ ~AddedToTeam(last, Projects["alpha"], Bob)
    /\ \E c \in CallsOf(last, "AddUserToTeamByEmail") :
          last.calls[c].arg = Bob.Email /\ ~last.calls[c].ok
    /\ Len(dbAuditLog) = 1
    /\ dbAuditLog[1].Action = "FOSSA_ADD_MEMBER"
    /\ dbAuditLog[1].ProjectID = Projects["alpha"].ID
    /\ dbAuditLog[1].MaintainerID = Alice.ID

\* C35: HasPendingInvitation answers true exactly when FOSSA holds an active
\* invitation for the address it is asked about: true when an invitation was
\* sent to that very address, and false when no invitation was sent to that
\* address in any spelling of upper and lower case.
C35_PendingExactlyWhenInvited ==
    (lastPending.op = "HasPendingInvitation" /\ lastPending.err = "nil")
        => /\ lastPending.email \in fossaInvitations => lastPending.pending
           /\ lastPending.pending
                 => \E inv \in fossaInvitations :
                       normalizeEmail(inv) = normalizeEmail(lastPending.email)

(***************************************************************************)
(* Properties of the bootstrap command.                                    *)
(***************************************************************************)
\* C14: LinkServiceUserToTeam is idempotent: a call that repeats the
\* arguments of the call before it, which returned no error, creates no
\* ServiceUserTeams row and leaves the rows there are unchanged.
C14_LinkIsIdempotent ==
    [][ (/\ lastBoot.op = "LinkServiceUserToTeam"
         /\ lastBoot.err = "nil"
         /\ lastBoot'.op = "LinkServiceUserToTeam"
         /\ lastBoot'.args = lastBoot.args)
            => bootDB'.links = bootDB.links ]_vars

\* the rows of the maintainers table that match a FOSSA user by GitHub handle
\* or, for a user without one, by address, letter case ignored
MatchesByHandle(db, github) ==
    {j \in 1..Len(db.maintainers) :
        github # <<>> /\ GoToLower(db.maintainers[j].GitHubAccount) = GoToLower(github)}
MatchesByEmail(db, email) ==
    {j \in 1..Len(db.maintainers) :
        \/ GoToLower(db.maintainers[j].Email) = GoToLower(email)
        \/ GoToLower(db.maintainers[j].GitHubEmail) = GoToLower(email)}

\* C17: MapFossaUserToMaintainer returns a registered maintainer exactly
\* when one matches the FOSSA user by GitHub handle or, failing that, by
\* email or GitHub email, letter case ignored: one that matches by handle
\* if there is one, else one that matches by address, and nil when none
\* matches.
C17_MapsExactlyTheMatches ==
    lastBoot.op = "MapFossaUserToMaintainer"
        => IF MatchesByHandle(bootDB, lastBoot.args[2]) # {}
           THEN \E j \in MatchesByHandle(bootDB, lastBoot.args[2]) :
                    lastBoot.result = bootDB.maintainers[j].ID
           ELSE IF MatchesByEmail(bootDB, lastBoot.args[1]) # {}
                THEN \E j \in MatchesByEmail(bootDB, lastBoot.args[1]) :
                         lastBoot.result = bootDB.maintainers[j].ID
                ELSE lastBoot.result = 0

\* the maintainers the association table gives a project
MaintainersOfProject(db, projectID) ==
    {m \in {db.maintainers[j].ID : j \in 1..Len(db.maintainers)} :
        <<m, projectID>> \in db.maintainerProjects}
HasProject(db, projectID) == \E j \in 1..Len(db.projects) : db.projects[j].ID = projectID

\* C18 as stated: GetMaintainersByProject(id) returns exactly the
\* maintainers of project id and no error, and returns nil with
\* ErrProjectNotFound when no project has that id.
C18_AlwaysTheMaintainers ==
    lastBoot.op = "GetMaintainersByProject"
        => IF HasProject(bootDB, lastBoot.args[1])
           THEN /\ lastBoot.err = "nil"
                /\ lastBoot.result = MaintainersOfProject(bootDB, lastBoot.args[1])
           ELSE lastBoot.err = "ErrProjectNotFound" /\ lastBoot.result = {}

\* C18, amended: when the query succeeds the result is as stated; when the
\* query fails GetMaintainersByProject returns nil and the error of the
\* database, which is not ErrProjectNotFound.
C18_TheMaintainersOrAnError ==
    lastBoot.op = "GetMaintainersByProject"
        => IF lastBoot.faults # {}
           THEN lastBoot.result = {} /\ lastBoot.err \notin {"nil", "ErrProjectNotFound"}
           ELSE IF HasProject(bootDB, lastBoot.args[1])
                THEN /\ lastBoot.err = "nil"
                     /\ lastBoot.result = MaintainersOfProject(bootDB, lastBoot.args[1])
                ELSE lastBoot.err = "ErrProjectNotFound" /\ lastBoot.result = {}

\* the store was asked for a project that has one of the two maintainers of
\* the table, and returned that one
C18_Witness ==
    /\ lastBoot.op = "GetMaintainersByProject"
    /\ lastBoot.err = "nil"
    /\ Len(bootDB.maintainers) = 2
    /\ Cardinality(lastBoot.result) = 1

\* C20: after any sequence of imports of the sheet, the same rows again
\* included, no two projects have the same name and no two companies have
\* the same name.
C20_NamesAreUnique ==
    /\ \A i, j \in 1..Len(bootDB.projects) :
          bootDB.projects[i].Name = bootDB.projects[j].Name => i = j
    /\ \A i, j \in 1..Len(bootDB.companies) :
          bootDB.companies[i].Name = bootDB.companies[j].Name => i = j

\* a sheet whose first row names a project and a company the database has
\* was imported with every statement succeeding, and added neither
C20_Witness ==
    /\ lastBoot.op = "loadMaintainersAndProjects"
    /\ lastBoot.faults = {}
    /\ lastBoot.args = <<"alpha", "Acme">>
    /\ lastBoot.result = <<Len(bootDB.projects), Len(bootDB.companies)>>
    /\ Len(bootDB.projects) = 2
    /\ Len(bootDB.companies) = 2

(***************************************************************************)
(* Properties of the workspace operator.                                   *)
(***************************************************************************)
\* the calls of one operation the last reconcile made
KcpCallsOf(l, api) == {i \in 1..Len(l.calls) : l.calls[i].api = api}

\* the reconcile asked kcp for the workspace and kcp answered
AnsweredGetWorkspace(l) ==
    \E i \in KcpCallsOf(l, "GetWorkspace") : l.calls[i].ok

\* C3: a reconcile of a Project whose GetWorkspace found the workspace named
\* after the project never calls CreateWorkspace and leaves the set of
\* workspaces as it is; no reconcile calls CreateWorkspace more than once.
C3_NoCreateWhenWorkspaceFound ==
    [][ lastReconcile'.op = "Reconcile"
            => /\ Cardinality(KcpCallsOf(lastReconcile', "CreateWorkspace")) <= 1
               /\ (/\ ToLower(lastReconcile'.req.Name) \in DOMAIN kcpWorkspaces
                   /\ AnsweredGetWorkspace(lastReconcile'))
                    => /\ KcpCallsOf(lastReconcile', "CreateWorkspace") = {}
                       /\ DOMAIN kcpWorkspaces' = DOMAIN kcpWorkspaces ]_vars

\* a reconcile of an existing Project has found its workspace, one created
\* by an earlier reconcile, and has not created another
C3_Witness ==
    /\ lastReconcile.op = "Reconcile"
    /\ lastReconcile.req \in DOMAIN k8sProjects
    /\ lastReconcile.found
    /\ AnsweredGetWorkspace(lastReconcile)
    /\ KcpCallsOf(lastReconcile, "CreateWorkspace") = {}
    /\ ToLower(lastReconcile.req.Name) \in DOMAIN kcpWorkspaces
    /\ kcpWorkspaces[ToLower(lastReconcile.req.Name)].ProjectName = lastReconcile.req.Name

\* the workspace named after the project of the request is in phase Ready
WorkspaceIsReady(workspaces, req) ==
    /\ ToLower(req.Name) \in DOMAIN workspaces
    /\ workspaces[ToLower(req.Name)].Phase = LogicalClusterPhaseReady

\* C16: a Reconcile of an existing Project that does not end with the
\* workspace of the project seen in phase Ready returns an error or a
\* positive RequeueAfter.
C16_RequeuedUntilReady ==
    [][ (/\ lastReconcile'.op = "Reconcile"
         /\ lastReconcile'.req \in DOMAIN k8sProjects
         /\ ~(/\ AnsweredGetWorkspace(lastReconcile')
              /\ WorkspaceIsReady(kcpWorkspaces', lastReconcile'.req)))
            => \/ lastReconcile'.err # "nil"
               \/ lastReconcile'.RequeueAfter > 0 ]_vars

\* a reconcile has found the workspace of its Project before kcp made it
\* Ready, and asks to be run again
C16_Witness ==
    /\ lastReconcile.op = "Reconcile"
    /\ lastReconcile.req \in DOMAIN k8sProjects
    /\ lastReconcile.found
    /\ ~WorkspaceIsReady(kcpWorkspaces, lastReconcile.req)
    /\ lastReconcile.err = "nil"
    /\ lastReconcile.RequeueAfter = RequeueNotReady

\* a call of the reconcile to the API server or to kcp failed
Unreachable(l) ==
    \/ \E i \in 1..Len(l.calls) : ~l.calls[i].ok
    \/ l.err \in {"LoadConfigFromCluster", "NewClient"}

\* the Project exists and kcp reports the workspace named after it as Ready
ReportedReady(key) ==
    /\ key \in DOMAIN k8sProjects
    /\ WorkspaceIsReady(kcpWorkspaces, key)

\* the WorkspaceReady condition of the Project is True
ConditionIsTrue(key) ==
    /\ key \in DOMAIN k8sProjects
    /\ \E i \in 1..Len(k8sProjects[key].conditions) :
          /\ k8sProjects[key].conditions[i].Type = WorkspaceReadyCondition
          /\ k8sProjects[key].conditions[i].Status = "True"

\* C26: if from some time on the Project exists, kcp reports its workspace in
\* phase Ready and no call of a reconcile to kcp or to the API server fails,
\* then from some time on the WorkspaceReady condition of the Project is True
\* and no request for the Project is queued again.
C26_EventuallyReadyAndAtRest ==
    \A key \in ProjectKeys :
        (/\ <>[]ReportedReady(key)
         /\ <>[][lastReconcile'.op = "Reconcile" => ~Unreachable(lastReconcile')]_vars)
            => <>[](ConditionIsTrue(key) /\ key \notin workqueue)

\* a reconcile that was queued because the workspace was not Ready has now
\* found it Ready, set the condition to True and asked for no further run
C26_Witness ==
    /\ lastReconcile.op = "Reconcile"
    /\ lastReconcile.found
    /\ ~Unreachable(lastReconcile)
    /\ ReportedReady(lastReconcile.req)
    /\ ConditionIsTrue(lastReconcile.req)
    /\ lastReconcile.req \notin workqueue
    /\ lastReconcile.RequeueAfter = 0

\* updateWorkspaceStatus has completed without error in the reconcile: the
\* annotations were updated and then the status
UpdatedWorkspaceStatus(l) ==
    \E i \in 1..(Len(l.calls) - 1) :
        /\ l.calls[i].api = "Update" /\ l.calls[i].ok
        /\ l.calls[i + 1].api = "StatusUpdate" /\ l.calls[i + 1].ok

\* the phase of the workspace as the kcp client reported it to the reconcile:
\* what GetWorkspace saw, or what WaitForWorkspaceReady returned, or, when
\* the wait failed, what CreateWorkspace returned
ReportedPhase(l, workspaces) ==
    IF l.found THEN workspaces[ToLower(l.req.Name)].Phase
    ELSE IF l.err = "nil" THEN LogicalClusterPhaseReady
    ELSE "Scheduling"

\* C27: whenever updateWorkspaceStatus has completed without error, the
\* WorkspaceReady condition of the Project is True with reason WorkspaceReady
\* if the reported phase is Ready and False with reason WorkspaceNotReady
\* otherwise, and the workspace-phase annotation is the reported phase.
C27_StatusFollowsPhase ==
    [][ (lastReconcile'.op = "Reconcile" /\ UpdatedWorkspaceStatus(lastReconcile'))
            => LET project == k8sProjects'[lastReconcile'.req]
                   phase == ReportedPhase(lastReconcile', kcpWorkspaces)
               IN /\ project.annotations.WorkspacePhase = phase
                  /\ \E i \in 1..Len(project.conditions) :
                        project.conditions[i].Type = WorkspaceReadyCondition
                  /\ \A i \in 1..Len(project.conditions) :
                        project.conditions[i].Type = WorkspaceReadyCondition
                          => IF phase = LogicalClusterPhaseReady
                             THEN /\ project.conditions[i].Status = "True"
                                  /\ project.conditions[i].Reason = "WorkspaceReady"
                             ELSE /\ project.conditions[i].Status = "False"
                                  /\ project.conditions[i].Reason = "WorkspaceNotReady"
      ]_vars

\* a reconcile has found the workspace while kcp was initializing it and has
\* updated the status: the condition is False and the annotation says so
C27_Witness ==
    /\ lastReconcile.op = "Reconcile"
    /\ lastReconcile.found
    /\ UpdatedWorkspaceStatus(lastReconcile)
    /\ k8sProjects[lastReconcile.req].annotations.WorkspacePhase = "Initializing"
    /\ ~ConditionIsTrue(lastReconcile.req)

\* the calls of the last reconcile to kcp
KcpOperations(l) ==
    {i \in 1..Len(l.calls) :
        l.calls[i].api \in {"GetWorkspace", "CreateWorkspace", "DeleteWorkspace"}}

\* C28: a reconcile that is told by the API server that its Project does not
\* exist makes no call to kcp, leaves every workspace as it is, the one named
\* after the Project included, and returns no error and no delay.
C28_DeletedProjectIsIgnored ==
    [][ (/\ lastReconcile'.op = "Reconcile"
         /\ lastReconcile'.req \notin DOMAIN k8sProjects
         /\ \E i \in KcpCallsOf(lastReconcile', "Get") : lastReconcile'.calls[i].ok)
            => /\ KcpOperations(lastReconcile') = {}
               /\ kcpWorkspaces' = kcpWorkspaces
               /\ k8sProjects' = k8sProjects
               /\ lastReconcile'.err = "nil"
               /\ lastReconcile'.RequeueAfter = 0
               /\ lastReconcile'.req \notin workqueue' ]_vars

\* the request of a deleted Project was reconciled while the workspace made
\* for it is still in kcp
C28_Witness ==
    /\ lastReconcile.op = "Reconcile"
    /\ lastReconcile.req \notin DOMAIN k8sProjects
    /\ ToLower(lastReconcile.req.Name) \in DOMAIN kcpWorkspaces
    /\ kcpWorkspaces[ToLower(lastReconcile.req.Name)].ProjectNamespace
          = lastReconcile.req.Namespace
    /\ lastReconcile.err = "nil"
    /\ KcpOperations(lastReconcile) = {}

\* the workspace the annotations of a Project name, <<>> while there is none
WorkspaceOf(key) == k8sProjects[key].annotations.WorkspaceName

\* C29: no two Project resources are backed by the same kcp workspace: the
\* workspaces their annotations name are different.
C29_OneWorkspacePerProject ==
    \A p, q \in DOMAIN k8sProjects :
        (p # q /\ WorkspaceOf(p) # <<>> /\ WorkspaceOf(q) # <<>>)
            => WorkspaceOf(p) # WorkspaceOf(q)

\* the conditions of a Project that are not the WorkspaceReady condition
OtherConditions(project) ==
    SelectSeq(project.conditions, LAMBDA c : c.Type # WorkspaceReadyCondition)

\* C37: a reconcile that writes the WorkspaceReady condition of its Project
\* leaves every other condition of the Project as it was, field by field.
C37_OtherConditionsKept ==
    [][ (/\ lastReconcile'.op = "Reconcile"
         /\ lastReconcile'.req \in DOMAIN k8sProjects
         /\ lastReconcile'.req \in DOMAIN k8sProjects'
         /\ \E i \in KcpCallsOf(lastReconcile', "StatusUpdate") : lastReconcile'.calls[i].ok)
            => OtherConditions(k8sProjects'[lastReconcile'.req])
                   = OtherConditions(k8sProjects[lastReconcile'.req]) ]_vars

(***************************************************************************)
(* Properties of the sync job.                                             *)
(***************************************************************************)
\* a call of WaitForWorkspaceReady for a workspace has returned
WaitHasReturned == lastWait.op = "returned" /\ lastWait.name # <<>>

\* C36: WaitForWorkspaceReady returns, and no later than WorkspaceReadyTimeout
\* after the call: with the info of the workspace and no error when a poll
\* has found the workspace in phase Ready, and otherwise with an error and the
\* info the last successful poll has read, nil when no poll has read one.
C36_ReturnsWithinTimeout ==
    /\ [](WaitHasReturned
            => /\ lastWait.elapsed <= WorkspaceReadyTimeout
               /\ lastWait.info = lastWait.lastInfo
               /\ lastWait.err = "nil" <=> lastWait.sawReady
               /\ lastWait.err = "nil"
                    => ~lastWait.info.nil /\ lastWait.info.Phase = LogicalClusterPhaseReady)
    /\ [][ (lastWait.op = "polling" /\ lastWait'.op = "returned" /\ lastWait'.err = "nil")
              => /\ lastWait.name \in DOMAIN kcpWorkspaces
                 /\ lastWait'.info = InfoOf(kcpWorkspaces[lastWait.name]) ]_vars
    /\ [][ (lastWait.op = "polling" /\ lastWait'.op = "polling" /\ lastWait' # lastWait)
              => /\ lastWait'.next > lastWait.next
                 /\ lastWait'.next < WorkspaceReadyTimeout
                 /\ lastWait'.lastInfo.nil => lastWait.lastInfo.nil ]_vars
    /\ (lastWait.op = "polling" ~> lastWait.op = "returned")

\* the wait has ended at the timeout with the info of a workspace that was
\* still initializing
C36_Witness ==
    /\ WaitHasReturned
    /\ lastWait.elapsed = WorkspaceReadyTimeout
    /\ lastWait.err # "nil"
    /\ lastWait.info.Phase = "Initializing"
    /\ lastWait.polls > 2

\* the cluster holds the resource of this item with a spec the job takes for
\* equal to the one derived from the row
HasResource(kind, item) ==
    /\ <<kind, item.name>> \in DOMAIN cluster
    /\ specEqual(kind, cluster[<<kind, item.name>>], item.spec)

\* C4: after syncAll has returned without error, every company, staff
\* member, maintainer, project and membership row of the database has a
\* resource whose spec equals the spec derived from that row.
C4_EveryRowHasEqualResource ==
    (lastSync.op = "syncAll" /\ lastSync.err = "nil")
        => /\ \A i \in 1..Len(syncDB.companies) :
                 HasResource("Company", CompanyItem(syncDB.companies[i]))
           /\ \A i \in 1..Len(syncDB.staff) :
                 HasResource("StaffMember", StaffItem(syncDB.staff[i]))
           /\ \A i \in 1..Len(syncDB.maintainers) :
                 HasResource("Maintainer", MaintainerItem(syncDB, syncDB.maintainers[i]))
           /\ \A i \in 1..Len(syncDB.projects) :
                 /\ HasResource("Project", ProjectItem(syncDB, syncDB.projects[i]))
                 /\ \A j \in 1..Len(syncDB.projects[i].Maintainers) :
                       HasResource("ProjectMembership",
                                   MembershipItem(syncDB.projects[i],
                                                  MaintainersOf(syncDB, syncDB.projects[i])[j]))

\* the items of a table name pairwise different resources
DistinctNames(items) ==
    \A i, j \in 1..Len(items) : i # j => items[i].name # items[j].name

\* C15: the mirror is 1:1 on names: in a run of syncAll no two rows of one
\* table (companies, staff, maintainers, projects, the memberships of a
\* project) are written to the same Custom Resource.
C15_DistinctRowsDistinctResources ==
    lastSync.op = "syncAll"
        => /\ DistinctNames([i \in 1..Len(syncDB.companies) |->
                                CompanyItem(syncDB.companies[i])])
           /\ DistinctNames([i \in 1..Len(syncDB.staff) |-> StaffItem(syncDB.staff[i])])
           /\ DistinctNames([i \in 1..Len(syncDB.maintainers) |->
                                MaintainerItem(syncDB, syncDB.maintainers[i])])
           /\ DistinctNames([i \in 1..Len(syncDB.projects) |->
                                ProjectItem(syncDB, syncDB.projects[i])])
           /\ \A i \in 1..Len(syncDB.projects) :
                 DistinctNames([j \in 1..Len(syncDB.projects[i].Maintainers) |->
                     MembershipItem(syncDB.projects[i],
                                    MaintainersOf(syncDB, syncDB.projects[i])[j])])

\* the resources of a kind that are in the namespace
Resolves(kind, ref) == ref = NoRef \/ <<kind, ref>> \in DOMAIN cluster

\* the references of one resource name resources of the kinds they are for
ReferencesResolve(key) ==
    LET spec == cluster[key] IN
    CASE key[1] = "Maintainer" -> Resolves("Company", spec.CompanyRef)
      [] key[1] = "StaffMember" -> Resolves("Foundation", spec.FoundationRef)
      [] key[1] = "Project" ->
            /\ \A i \in 1..Len(spec.MaintainerRefs) :
                  Resolves("Maintainer", spec.MaintainerRefs[i])
            /\ Resolves("Maintainer", spec.MaintainerLeadRef)
            /\ Resolves("Project", spec.ParentProjectRef)
      [] key[1] = "ProjectMembership" ->
            /\ Resolves("Project", spec.ProjectRef)
            /\ Resolves("Maintainer", spec.MaintainerRef)
      [] OTHER -> TRUE

\* C31: after syncAll has returned without error, every reference in the
\* spec of a mirrored resource (CompanyRef, FoundationRef, MaintainerRefs,
\* MaintainerLeadRef, ParentProjectRef, and ProjectRef and MaintainerRef of a
\* membership) names a resource that exists in the namespace.
C31_ReferencesResolve ==
    (lastSync.op = "syncAll" /\ lastSync.err = "nil")
        => \A key \in DOMAIN cluster : ReferencesResolve(key)

\* the names of the resources of a kind that the rows of the database are
\* mirrored to
MirroredNames(kind) ==
    CASE kind = "Company" ->
            {CompanyItem(syncDB.companies[i]).name : i \in 1..Len(syncDB.companies)}
      [] kind = "StaffMember" ->
            {StaffItem(syncDB.staff[i]).name : i \in 1..Len(syncDB.staff)}
      [] kind = "Maintainer" ->
            {MaintainerItem(syncDB, syncDB.maintainers[i]).name :
                i \in 1..Len(syncDB.maintainers)}
      [] kind = "Project" ->
            {ProjectItem(syncDB, syncDB.projects[i]).name : i \in 1..Len(syncDB.projects)}
      [] kind = "ProjectMembership" ->
            UNION {{MembershipItem(syncDB.projects[i],
                                   MaintainersOf(syncDB, syncDB.projects[i])[j]).name :
                       j \in 1..Len(syncDB.projects[i].Maintainers)} :
                   i \in 1..Len(syncDB.projects)}
      [] OTHER -> {}

\* C32: after syncAll has returned without error, every resource in the
\* namespace is the mirror of a row that is in the database now: no resource
\* is left behind for a row that was removed.
C32_NoResourceLeftBehind ==
    (lastSync.op = "syncAll" /\ lastSync.err = "nil")
        => \A key \in DOMAIN cluster : key[2] \in MirroredNames(key[1])

\* the Create and Update requests of a run
Writes(l) == {i \in 1..Len(l.calls) : l.calls[i].api \in {"Create", "Update"}}

\* C33: syncAll is idempotent: a run that follows a successful run, with the
\* database and the namespace as that run left them, issues no Create and no
\* Update request.
C33_SecondRunWritesNothing ==
    [][ (/\ lastSync.op = "syncAll" /\ lastSync.err = "nil"
         /\ lastSync'.op = "syncAll")
            => Writes(lastSync') = {} ]_vars

(***************************************************************************)
(* Properties of sanitizeName.                                             *)
(***************************************************************************)
\* a DNS-1123 label: one to 63 lowercase letters, digits and "-", the first
\* and the last a letter or a digit
IsAlphanumeric(c) == c \in {LowerChars[i] : i \in 1..Len(LowerChars)} \cup Digits

IsDNS1123Label(s) ==
    /\ Len(s) >= 1
    /\ Len(s) <= MaxNameLen
    /\ \A i \in 1..Len(s) : IsAlphanumeric(s[i]) \/ s[i] = "-"
    /\ IsAlphanumeric(s[1])
    /\ IsAlphanumeric(s[Len(s)])

\* C38: the name sanitizeName returns is a DNS-1123 label: not empty, at most
\* 63 characters, lowercase letters, digits and "-" only, the first and the
\* last character a letter or a digit.
C38_ReturnsDNS1123Label ==
    lastSanitize.op = "sanitizeName" => IsDNS1123Label(lastSanitize.result)

====
